---- MODULE Spec2Model ----
(***************************************************************************)
(* Entity-management layer of dummy-ts-project: the Result type, the       *)
(* entity timestamp helpers, paginate, and the in-memory repositories      *)
(* (packages/backend InMemoryRepository, src/models InMemoryUserRepository *)
(* and InMemoryProductRepository).                                         *)
(***************************************************************************)
EXTENDS Integers, Sequences, FiniteSets, TLC

(* ------------------------------ bounds --------------------------------- *)
\* the clock (milliseconds of Date.now()) runs over 0..MaxTime
MaxTime == 1
\* Math.random() suffixes of an id are drawn from 0..MaxRand-1
MaxRand == 2
\* entities kept in one repository Map
MaxStore == 2
\* the payload fields of an entity (everything but id/createdAt/updatedAt)
MaxData == 1
\* page numbers 0..MaxPage and page sizes 1..MaxPageSize asked of a repository
MaxPage == 3
MaxPageSize == 2
\* strings given to the validators: every string over Alphabet of length
\* <= MaxEmailLen (emails) or <= MaxNameLen (names and other text), and the
\* names of MaxNameLength - 1 .. MaxNameLength + 1 characters
MaxEmailLen == 5
MaxNameLen == 2
\* combineValidations is given at most MaxResults results
MaxResults == 3
\* loginCount and views are counted up to MaxCount
MaxCount == 1
\* at most MaxHandlers handlers subscribe to a service
MaxHandlers == 2
\* at most MaxTasks calls are in flight at a time
MaxTasks == 2
\* an ApiClient makes at most MaxRequests requests
MaxRequests == 2
\* at most MaxCalls interleaved service calls are made in a run
MaxCalls == 3
\* a NotificationManager adds at most MaxNotifications notifications
MaxNotifications == 2
\* at most MaxListeners listeners subscribe to a NotificationManager
MaxListeners == 2

\* paginate as a pure function: lists <<1, .., n>> for n <= MaxLen, every list
\* over 1..2 of length <= MaxShort, pages 0..MaxPageArg, sizes 1..MaxSizeArg
MaxLen == 25
MaxShort == 3
MaxPageArg == 4
MaxSizeArg == 10

Times == 0..MaxTime
Rands == 0..(MaxRand - 1)
Data == 0..MaxData

(* --------------------------- JS values --------------------------------- *)
\* An optional JS value is a sequence of length 0 (undefined / null) or 1.
Undefined == <<>>
Null == <<>>
Some(x) == <<x>>
Present(v) == Len(v) > 0
Get(v) == v[1]

(* ------------------- shared/utils.ts : Result -------------------------- *)
createSuccess(value) == [ok |-> TRUE, value |-> value, error |-> Undefined]

createError(error) == [ok |-> FALSE, value |-> Undefined, error |-> Some(error)]

\* `Entity with id ${id} not found`
EntityNotFound(id) == [msg |-> "Entity with id not found", id |-> id]

(* ------------------- core/utils.ts : OperationResult ------------------- *)
success(data) == [success |-> TRUE, data |-> data, error |-> Undefined]

failure(error) == [success |-> FALSE, data |-> Undefined, error |-> Some(error)]

\* `User with id ${id} not found`
UserNotFound(id) == [msg |-> "User with id not found", id |-> id]

\* `Product with id ${id} not found`
ProductNotFound(id) == [msg |-> "Product with id not found", id |-> id]

(* ------------------- ids and timestamps -------------------------------- *)
generateUniqueId_clockOnly(t, r) == <<t, 0>>

\* `${Date.now().toString(36)}-${Math.random().toString(36).substring(2, 11)}`
generateUniqueId(t, r) == <<t, r>>

\* `${Date.now()}-${Math.random().toString(36).substring(2, 9)}`
generateId(t, r) == <<t, r>>

IdSpace == Times \X Rands

createEntityFields(t, r) ==
    [id |-> generateUniqueId(t, r), createdAt |-> t, updatedAt |-> t]

touchEntity_resetsCreated(entity, t) ==
    [entity EXCEPT !.updatedAt = t, !.createdAt = t]

touchEntity(entity, t) == [entity EXCEPT !.updatedAt = t]

createTimestamps(t) == [createdAt |-> t, updatedAt |-> t]

touchTimestamp_resetsCreated(entity, t) ==
    [entity EXCEPT !.updatedAt = t, !.createdAt = t]

touchTimestamp(entity, t) == [entity EXCEPT !.updatedAt = t]

\* { ...createEntityFields(), <payload> } as in createBackendUser / createBackendItem
NewBackendEntity(t, r, d) ==
    LET fields == createEntityFields(t, r)
    IN  [id |-> fields.id, createdAt |-> fields.createdAt,
         updatedAt |-> fields.updatedAt, data |-> d]

\* { id: generateId(), ...createTimestamps(), <payload> } as in createUser / createProduct
NewCoreEntity(t, r, d) ==
    LET stamps == createTimestamps(t)
    IN  [id |-> generateId(t, r), createdAt |-> stamps.createdAt,
         updatedAt |-> stamps.updatedAt, data |-> d]

\* The entities a caller can hold at time t: built at some c <= t, possibly
\* touched since at some u in c..t, with any payload.
HoldableEntities(t) ==
    UNION { { [NewBackendEntity(c, r, d) EXCEPT !.updatedAt = u] :
                u \in c..t, r \in Rands, d \in Data } : c \in 0..t }

HoldableCoreEntities(t) ==
    UNION { { [NewCoreEntity(c, r, d) EXCEPT !.updatedAt = u] :
                u \in c..t, r \in Rands, d \in Data } : c \in 0..t }

(* ------------------- JS Map (insertion ordered) ------------------------ *)
MapHas(m, id) == \E i \in 1..Len(m) : m[i].id = id

MapGet(m, id) ==
    IF MapHas(m, id)
    THEN Some(m[CHOOSE i \in 1..Len(m) : m[i].id = id])
    ELSE Undefined

MapSet(m, e) ==
    IF MapHas(m, e.id)
    THEN [i \in 1..Len(m) |-> IF m[i].id = e.id THEN e ELSE m[i]]
    ELSE Append(m, e)

MapDelete(m, id) == SelectSeq(m, LAMBDA x : x.id # id)

MapValues(m) == m

(* ------------------- shared/utils.ts : paginate ------------------------ *)
MathCeilDiv_floor(a, b) == a \div b

\* Math.ceil(a / b) for a >= 0, b >= 1
MathCeilDiv(a, b) == IF a % b = 0 THEN a \div b ELSE (a \div b) + 1

Max(a, b) == IF a >= b THEN a ELSE b
Min(a, b) == IF a <= b THEN a ELSE b

\* Array.prototype.slice(start, end): negative indices count from the end,
\* both ends are clamped to the array
ArraySlice(arr, start, end) ==
    LET len == Len(arr)
        from == IF start < 0 THEN Max(len + start, 0) ELSE Min(start, len)
        to == IF end < 0 THEN Max(len + end, 0) ELSE Min(end, len)
    IN  IF from >= to THEN <<>> ELSE [i \in 1..(to - from) |-> arr[from + i]]

paginate_offByOne(items, params) ==
    LET total == Len(items)
        totalPages == MathCeilDiv(total, params.pageSize)
        start == params.page * params.pageSize
        end == start + params.pageSize
    IN  [items |-> ArraySlice(items, start, end), total |-> total,
         page |-> params.page, pageSize |-> params.pageSize,
         totalPages |-> totalPages]

paginate_shortEnd(items, params) ==
    LET total == Len(items)
        totalPages == MathCeilDiv(total, params.pageSize)
        start == (params.page - 1) * params.pageSize
        end == start + params.pageSize - 1
    IN  [items |-> ArraySlice(items, start, end), total |-> total,
         page |-> params.page, pageSize |-> params.pageSize,
         totalPages |-> totalPages]

\* sorts descending before windowing when sortOrder is 'desc'
paginate_sortsDesc(items, params) ==
    LET sorted == IF params.sortOrder = <<"desc">>
                  THEN [i \in 1..Len(items) |-> items[Len(items) + 1 - i]]
                  ELSE items
        total == Len(sorted)
        totalPages == MathCeilDiv(total, params.pageSize)
        start == (params.page - 1) * params.pageSize
        end == start + params.pageSize
    IN  [items |-> ArraySlice(sorted, start, end), total |-> total,
         page |-> params.page, pageSize |-> params.pageSize,
         totalPages |-> totalPages]

paginate(items, params) ==
    LET total == Len(items)
        totalPages == MathCeilDiv(total, params.pageSize)
        start == (params.page - 1) * params.pageSize
        end == start + params.pageSize
    IN  [items |-> ArraySlice(items, start, end), total |-> total,
         page |-> params.page, pageSize |-> params.pageSize,
         totalPages |-> totalPages]

(* ------------------- shared/utils.ts : unwrapResult -------------------- *)
\* an Error whose message is a fixed text
ErrorMessage(text) == [msg |-> text, id |-> Undefined]

\* how a call completes: by returning a value or by throwing an Error
Returned(v) == [kind |-> "return", value |-> v, error |-> Undefined]

Thrown(e) == [kind |-> "throw", value |-> Undefined, error |-> Some(e)]

unwrapResult_lenient(r) ==
    IF ~r.ok
    THEN Thrown(IF Present(r.error) THEN Get(r.error) ELSE ErrorMessage("Unknown error"))
    ELSE Returned(r.value)

unwrapResult(r) ==
    IF ~r.ok
    THEN Thrown(IF Present(r.error) THEN Get(r.error) ELSE ErrorMessage("Unknown error"))
    ELSE IF ~Present(r.value)
         THEN Thrown(ErrorMessage("Result value is undefined"))
         ELSE Returned(r.value)

(* ------------------- shared/validation.ts ------------------------------ *)
\* strings are sequences of characters
Alphabet == {"a", " ", "@", "."}

Strings(n) == UNION { [1..k -> Alphabet] : k \in 0..n }

MinNameLength == 2
MaxNameLength == 100

\* \s
IsSpace(c) == c = " "

\* String.prototype.trim()
StringTrim(str) ==
    LET solid == { i \in 1..Len(str) : ~IsSpace(str[i]) }
    IN  IF solid = {}
        THEN <<>>
        ELSE LET first == CHOOSE i \in solid : \A j \in solid : i <= j
                 last == CHOOSE i \in solid : \A j \in solid : i >= j
             IN  SubSeq(str, first, last)

\* !str for a string
Falsy(str) == Len(str) = 0

\* !field for an optional text field (undefined or '')
FalsyField(field) == ~Present(field) \/ Len(Get(field)) = 0

\* field ?? ''
OrEmpty(field) == IF Present(field) THEN Get(field) ELSE <<>>

\* /^[^\s@]+@[^\s@]+\.[^\s@]+$/.test(str)
EMAIL_REGEX_test(str) ==
    \E at \in 1..Len(str), dot \in 1..Len(str) :
        /\ str[at] = "@"
        /\ str[dot] = "."
        /\ at >= 2
        /\ dot >= at + 2
        /\ dot <= Len(str) - 1
        /\ \A i \in 1..Len(str) : i # at => (~IsSpace(str[i]) /\ str[i] # "@")

validationSuccess == [ok |-> TRUE, errors |-> Undefined]

validationError_bare(errors) == [ok |-> FALSE, errors |-> Undefined]

validationError(errors) == [ok |-> FALSE, errors |-> Some(errors)]

\* { field, message, code }; a message is the sequence of its template parts
FieldError(field, message, code) ==
    [field |-> field, message |-> message, code |-> code]

validateEmail(email) ==
    IF Falsy(email) \/ Len(StringTrim(email)) = 0
    THEN validationError(<<FieldError("email", <<"Email is required">>, "REQUIRED")>>)
    ELSE IF ~EMAIL_REGEX_test(email)
         THEN validationError(<<FieldError("email", <<"Invalid email format">>, "INVALID_FORMAT")>>)
         ELSE validationSuccess

validateName_lengthFirst(name, fieldName) ==
    IF Len(name) < MinNameLength
    THEN validationError(<<FieldError(fieldName,
             <<fieldName, " must be at least 2 characters">>, "MIN_LENGTH")>>)
    ELSE IF Falsy(name) \/ Len(StringTrim(name)) = 0
         THEN validationError(<<FieldError(fieldName,
                  <<fieldName, " is required">>, "REQUIRED")>>)
         ELSE IF Len(name) > MaxNameLength
              THEN validationError(<<FieldError(fieldName,
                       <<fieldName, " must not exceed 100 characters">>, "MAX_LENGTH")>>)
              ELSE validationSuccess

validateName(name, fieldName) ==
    IF Falsy(name) \/ Len(StringTrim(name)) = 0
    THEN validationError(<<FieldError(fieldName,
             <<fieldName, " is required">>, "REQUIRED")>>)
    ELSE IF Len(name) < MinNameLength
         THEN validationError(<<FieldError(fieldName,
                  <<fieldName, " must be at least 2 characters">>, "MIN_LENGTH")>>)
         ELSE IF Len(name) > MaxNameLength
              THEN validationError(<<FieldError(fieldName,
                       <<fieldName, " must not exceed 100 characters">>, "MAX_LENGTH")>>)
              ELSE validationSuccess

\* errors.push(...r.errors) guarded by !r.ok && r.errors
PushedErrors(r) == IF ~r.ok /\ Present(r.errors) THEN Get(r.errors) ELSE <<>>

validateUserDto(user) ==
    LET emailResult == validateEmail(OrEmpty(user.email))
        nameResult == validateName(OrEmpty(user.name), "name")
        roleErrors == IF ~Present(user.role)
                      THEN <<FieldError("role", <<"Role is required">>, "REQUIRED")>>
                      ELSE <<>>
        errors == PushedErrors(emailResult) \o PushedErrors(nameResult) \o roleErrors
    IN  IF Len(errors) > 0 THEN validationError(errors) ELSE validationSuccess

validateItemDto(item) ==
    LET titleResult == validateName(OrEmpty(item.title), "title")
        descriptionErrors ==
            IF FalsyField(item.description)
            THEN <<FieldError("description", <<"Description is required">>, "REQUIRED")>>
            ELSE <<>>
        ownerErrors ==
            IF FalsyField(item.ownerId)
            THEN <<FieldError("ownerId", <<"Owner ID is required">>, "REQUIRED")>>
            ELSE <<>>
        statusErrors ==
            IF ~Present(item.status)
            THEN <<FieldError("status", <<"Status is required">>, "REQUIRED")>>
            ELSE <<>>
        errors == PushedErrors(titleResult) \o descriptionErrors \o ownerErrors
                    \o statusErrors
    IN  IF Len(errors) > 0 THEN validationError(errors) ELSE validationSuccess

RECURSIVE AllErrors(_)
\* the loop of combineValidations over results
AllErrors(results) ==
    IF results = <<>>
    THEN <<>>
    ELSE PushedErrors(Head(results)) \o AllErrors(Tail(results))

combineValidations_reversed(results) ==
    LET allErrors == AllErrors([i \in 1..Len(results) |->
                                   results[Len(results) + 1 - i]])
    IN  IF Len(allErrors) > 0 THEN validationError(allErrors) ELSE validationSuccess

combineValidations(results) ==
    LET allErrors == AllErrors(results)
    IN  IF Len(allErrors) > 0 THEN validationError(allErrors) ELSE validationSuccess

(* ------------------------------ state ---------------------------------- *)
VARIABLES
    now,        \* the clock read by new Date() / Date.now()
    impl,       \* which repository class the run exercises
    store,      \* InMemoryRepository.store
    users,      \* InMemoryUserRepository.users
    products,   \* InMemoryProductRepository.products
    call,       \* the repository call made last
    result,     \* what that call returned
    lastSaved,  \* history: per id, the argument and time of the latest save
                \* not followed by a delete of that id
    items,      \* paginate: the input list
    params,     \* paginate: the PaginationParams
    response,   \* paginate: the PaginatedResponse of the last call
    walk,       \* page walk: the next page to fetch
    collected,  \* page walk: the items of pages 1..walk-1, concatenated
    fcall,      \* shared package: the function called last and its arguments
    fout,       \* shared package: what that call returned or threw
    svc,        \* which service class the run exercises
    scall,      \* service: the operation called last and its arguments
    sout,       \* service: how that operation completed
    eventEmitters,  \* service: the subscribed handlers (eventHandlers in
                    \* src/services), in subscription order
    published,  \* history: the events the last operation passed to emitEvent
    delivered,  \* history: the handler invocations made by the last
                \* operation, in order
    tasks,      \* calls in flight: per caller, the operation it awaits, the
                \* await it is suspended at and the locals it holds
    callOrder,      \* history: the callers, in the order their calls were made
    microtasks, \* the job queue: the callers whose call is suspended at an await
                \* on a settled promise, in the order they will resume
    returned,   \* history: the service calls that have returned, each with
                \* its operation, its arguments and its result
    requests,   \* ApiClient: the calls of request made so far, each with its
                \* AbortController, its timer, the response and the Result
    notifications,  \* NotificationManager.notifications
    listeners,      \* NotificationManager.listeners
    idCounter,      \* NotificationManager.idCounter
    timers,     \* the ids whose setTimeout(() => this.remove(id)) is pending
    ncall,      \* history: the last NotificationManager call and what it returned
    notified    \* history: the listener invocations made by the last call

repoVars == <<now, impl, store, users, products, call, result, lastSaved>>

pageVars == <<items, params, response, walk, collected>>

sharedVars == <<fcall, fout>>

serviceVars == <<svc, scall, sout, eventEmitters, published, delivered>>

asyncVars == <<tasks, callOrder, returned, microtasks>>

notificationVars == <<notifications, listeners, idCounter, timers, ncall, notified>>

frontendVars == <<requests, notificationVars>>

vars == <<repoVars, pageVars, sharedVars, serviceVars, asyncVars, frontendVars>>

nonRepoVars == <<pageVars, sharedVars, serviceVars, asyncVars, frontendVars>>

nonPageVars == <<repoVars, sharedVars, serviceVars, asyncVars, frontendVars>>

nonSharedVars == <<repoVars, pageVars, serviceVars, asyncVars, frontendVars>>

\* what no service operation touches
nonServiceVars ==
    <<impl, call, result, lastSaved, pageVars, sharedVars, asyncVars, frontendVars>>

nonFrontendVars == <<repoVars, pageVars, sharedVars, serviceVars, asyncVars>>

Impls == {"InMemoryRepository", "InMemoryUserRepository", "InMemoryProductRepository"}

\* InMemoryRepository and the classes that extend it
BackendRepositories == {"InMemoryRepository", "UserRepository", "ItemRepository"}

NoCall ==
    [op |-> "none", id |-> Undefined, entity |-> Undefined, params |-> Undefined,
     had |-> FALSE]

\* had: whether the key of the call was in the Map when the call was made
CallOf(op, id, entity, pp, had) ==
    [op |-> op, id |-> id, entity |-> entity, params |-> pp, had |-> had]

PageParams ==
    [page : 0..MaxPage, pageSize : 1..MaxPageSize]

\* a save may add a key only while the Map holds fewer than MaxStore entries
Room(m, e) == MapHas(m, e.id) \/ Len(m) < MaxStore

Saved(e, t) == Some([entity |-> e, at |-> t])

RepoIdle ==
    /\ now = 0
    /\ impl = "InMemoryRepository"
    /\ store = <<>>
    /\ users = <<>>
    /\ products = <<>>
    /\ call = NoCall
    /\ result = Undefined
    /\ lastSaved = [id \in IdSpace |-> Undefined]

PageIdle ==
    /\ items = <<>>
    /\ params = [page |-> 1, pageSize |-> 1]
    /\ response = Undefined
    /\ walk = 1
    /\ collected = <<>>

SharedIdle ==
    /\ fcall = <<>>
    /\ fout = <<>>

FrontendIdle ==
    /\ requests = <<>>
    /\ notifications = <<>>
    /\ listeners = <<>>
    /\ idCounter = 0
    /\ timers = {}
    /\ ncall = <<>>
    /\ notified = <<>>

ServiceIdle ==
    /\ svc = "none"
    /\ scall = <<>>
    /\ sout = <<>>
    /\ eventEmitters = <<>>
    /\ published = <<>>
    /\ delivered = <<>>
    /\ tasks = <<>>
    /\ callOrder = <<>>
    /\ returned = <<>>
    /\ microtasks = <<>>

InitRepo ==
    /\ now = 0
    /\ impl \in Impls
    /\ store = <<>>
    /\ users = <<>>
    /\ products = <<>>
    /\ call = NoCall
    /\ result = Undefined
    /\ lastSaved = [id \in IdSpace |-> Undefined]
    /\ PageIdle
    /\ SharedIdle
    /\ FrontendIdle
    /\ ServiceIdle

Tick ==
    /\ now < MaxTime
    /\ now' = now + 1
    /\ UNCHANGED <<impl, store, users, products, call, result, lastSaved>>
    /\ UNCHANGED nonRepoVars

(* ------------- packages/backend/repository.ts InMemoryRepository ------- *)
InMemoryRepository_findById_noCheck(id) ==
    /\ impl \in BackendRepositories
    /\ result' = createSuccess(MapGet(store, id))
    /\ call' = CallOf("findById", Some(id), Undefined, Undefined, MapHas(store, id))
    /\ UNCHANGED <<now, impl, store, users, products, lastSaved>>
    /\ UNCHANGED nonRepoVars

InMemoryRepository_findById(id) ==
    /\ impl \in BackendRepositories
    /\ LET entity == MapGet(store, id)
       IN  result' = IF ~Present(entity)
                     THEN createError(EntityNotFound(id))
                     ELSE createSuccess(entity)
    /\ call' = CallOf("findById", Some(id), Undefined, Undefined, MapHas(store, id))
    /\ UNCHANGED <<now, impl, store, users, products, lastSaved>>
    /\ UNCHANGED nonRepoVars

InMemoryRepository_findAll_dropsLast ==
    /\ impl \in BackendRepositories
    /\ result' = createSuccess(Some(ArraySlice(MapValues(store), 0, Len(store) - 1)))
    /\ call' = CallOf("findAll", Undefined, Undefined, Undefined, FALSE)
    /\ UNCHANGED <<now, impl, store, users, products, lastSaved>>
    /\ UNCHANGED nonRepoVars

InMemoryRepository_findAll ==
    /\ impl \in BackendRepositories
    /\ result' = createSuccess(Some(MapValues(store)))
    /\ call' = CallOf("findAll", Undefined, Undefined, Undefined, FALSE)
    /\ UNCHANGED <<now, impl, store, users, products, lastSaved>>
    /\ UNCHANGED nonRepoVars

InMemoryRepository_findPaginated_failsBeyond(pp) ==
    /\ impl \in BackendRepositories
    /\ LET values == MapValues(store)
       IN  result' = IF pp.page > MathCeilDiv(Len(values), pp.pageSize)
                     THEN createError([msg |-> "Page out of range", id |-> pp.page])
                     ELSE createSuccess(Some(paginate(values, pp)))
    /\ call' = CallOf("findPaginated", Undefined, Undefined, Some(pp), FALSE)
    /\ UNCHANGED <<now, impl, store, users, products, lastSaved>>
    /\ UNCHANGED nonRepoVars

InMemoryRepository_findPaginated(pp) ==
    /\ impl \in BackendRepositories
    /\ LET values == MapValues(store)
       IN  result' = createSuccess(Some(paginate(values, pp)))
    /\ call' = CallOf("findPaginated", Undefined, Undefined, Some(pp), FALSE)
    /\ UNCHANGED <<now, impl, store, users, products, lastSaved>>
    /\ UNCHANGED nonRepoVars

InMemoryRepository_save(entity) ==
    /\ impl \in BackendRepositories
    /\ Room(store, entity)
    /\ LET updated == touchEntity(entity, now)
       IN  /\ store' = MapSet(store, updated)
           /\ result' = createSuccess(Some(updated))
    /\ call' = CallOf("save", Undefined, Some(entity), Undefined, MapHas(store, entity.id))
    /\ lastSaved' = [lastSaved EXCEPT ![entity.id] = Saved(entity, now)]
    /\ UNCHANGED <<now, impl, users, products>>
    /\ UNCHANGED nonRepoVars

InMemoryRepository_delete_noRemove(id) ==
    /\ impl \in BackendRepositories
    /\ IF ~MapHas(store, id)
       THEN /\ result' = createError(EntityNotFound(id))
            /\ UNCHANGED <<store, lastSaved>>
       ELSE /\ store' = store
            /\ result' = createSuccess(Undefined)
            /\ lastSaved' = [lastSaved EXCEPT ![id] = Undefined]
    /\ call' = CallOf("delete", Some(id), Undefined, Undefined, MapHas(store, id))
    /\ UNCHANGED <<now, impl, users, products>>
    /\ UNCHANGED nonRepoVars

InMemoryRepository_delete_noCheck(id) ==
    /\ impl \in BackendRepositories
    /\ store' = MapDelete(store, id)
    /\ result' = createSuccess(Undefined)
    /\ lastSaved' = [lastSaved EXCEPT ![id] = Undefined]
    /\ call' = CallOf("delete", Some(id), Undefined, Undefined, MapHas(store, id))
    /\ UNCHANGED <<now, impl, users, products>>
    /\ UNCHANGED nonRepoVars

InMemoryRepository_delete(id) ==
    /\ impl \in BackendRepositories
    /\ IF ~MapHas(store, id)
       THEN /\ result' = createError(EntityNotFound(id))
            /\ UNCHANGED <<store, lastSaved>>
       ELSE /\ store' = MapDelete(store, id)
            /\ result' = createSuccess(Undefined)
            /\ lastSaved' = [lastSaved EXCEPT ![id] = Undefined]
    /\ call' = CallOf("delete", Some(id), Undefined, Undefined, MapHas(store, id))
    /\ UNCHANGED <<now, impl, users, products>>
    /\ UNCHANGED nonRepoVars

(* ------------- src/models/user.ts InMemoryUserRepository --------------- *)
InMemoryUserRepository_findById(id) ==
    /\ impl = "InMemoryUserRepository"
    /\ result' = (IF Present(MapGet(users, id)) THEN MapGet(users, id) ELSE Null)
    /\ call' = CallOf("findById", Some(id), Undefined, Undefined, MapHas(users, id))
    /\ UNCHANGED <<now, impl, store, users, products, lastSaved>>
    /\ UNCHANGED nonRepoVars

InMemoryUserRepository_findAll ==
    /\ impl = "InMemoryUserRepository"
    /\ result' = MapValues(users)
    /\ call' = CallOf("findAll", Undefined, Undefined, Undefined, FALSE)
    /\ UNCHANGED <<now, impl, store, users, products, lastSaved>>
    /\ UNCHANGED nonRepoVars

InMemoryUserRepository_save(user) ==
    /\ impl = "InMemoryUserRepository"
    /\ Room(users, user)
    /\ users' = MapSet(users, user)
    /\ result' = success(Some(user))
    /\ call' = CallOf("save", Undefined, Some(user), Undefined, MapHas(users, user.id))
    /\ lastSaved' = [lastSaved EXCEPT ![user.id] = Saved(user, now)]
    /\ UNCHANGED <<now, impl, store, products>>
    /\ UNCHANGED nonRepoVars

InMemoryUserRepository_delete(id) ==
    /\ impl = "InMemoryUserRepository"
    /\ IF MapHas(users, id)
       THEN /\ users' = MapDelete(users, id)
            /\ result' = success(Undefined)
            /\ lastSaved' = [lastSaved EXCEPT ![id] = Undefined]
       ELSE /\ result' = failure(UserNotFound(id))
            /\ UNCHANGED <<users, lastSaved>>
    /\ call' = CallOf("delete", Some(id), Undefined, Undefined, MapHas(users, id))
    /\ UNCHANGED <<now, impl, store, products>>
    /\ UNCHANGED nonRepoVars

(* ------------- src/models/product.ts InMemoryProductRepository --------- *)
InMemoryProductRepository_findById(id) ==
    /\ impl = "InMemoryProductRepository"
    /\ result' = (IF Present(MapGet(products, id)) THEN MapGet(products, id) ELSE Null)
    /\ call' = CallOf("findById", Some(id), Undefined, Undefined, MapHas(products, id))
    /\ UNCHANGED <<now, impl, store, users, products, lastSaved>>
    /\ UNCHANGED nonRepoVars

InMemoryProductRepository_findAll ==
    /\ impl = "InMemoryProductRepository"
    /\ result' = MapValues(products)
    /\ call' = CallOf("findAll", Undefined, Undefined, Undefined, FALSE)
    /\ UNCHANGED <<now, impl, store, users, products, lastSaved>>
    /\ UNCHANGED nonRepoVars

InMemoryProductRepository_save(product) ==
    /\ impl = "InMemoryProductRepository"
    /\ Room(products, product)
    /\ LET updated == touchTimestamp(product, now)
       IN  /\ products' = MapSet(products, updated)
           /\ result' = success(Some(updated))
    /\ call' = CallOf("save", Undefined, Some(product), Undefined, MapHas(products, product.id))
    /\ lastSaved' = [lastSaved EXCEPT ![product.id] = Saved(product, now)]
    /\ UNCHANGED <<now, impl, store, users>>
    /\ UNCHANGED nonRepoVars

InMemoryProductRepository_delete(id) ==
    /\ impl = "InMemoryProductRepository"
    /\ IF MapHas(products, id)
       THEN /\ products' = MapDelete(products, id)
            /\ result' = success(Undefined)
            /\ lastSaved' = [lastSaved EXCEPT ![id] = Undefined]
       ELSE /\ result' = failure(ProductNotFound(id))
            /\ UNCHANGED <<products, lastSaved>>
    /\ call' = CallOf("delete", Some(id), Undefined, Undefined, MapHas(products, id))
    /\ UNCHANGED <<now, impl, store, users>>
    /\ UNCHANGED nonRepoVars

NextRepo ==
    \/ Tick
    \/ \E id \in IdSpace : InMemoryRepository_findById(id)
    \/ InMemoryRepository_findAll
    \/ \E pp \in PageParams : InMemoryRepository_findPaginated(pp)
    \/ \E entity \in HoldableEntities(now) : InMemoryRepository_save(entity)
    \/ \E id \in IdSpace : InMemoryRepository_delete(id)
    \/ \E id \in IdSpace : InMemoryUserRepository_findById(id)
    \/ InMemoryUserRepository_findAll
    \/ \E user \in HoldableCoreEntities(now) : InMemoryUserRepository_save(user)
    \/ \E id \in IdSpace : InMemoryUserRepository_delete(id)
    \/ \E id \in IdSpace : InMemoryProductRepository_findById(id)
    \/ InMemoryProductRepository_findAll
    \/ \E product \in HoldableCoreEntities(now) : InMemoryProductRepository_save(product)
    \/ \E id \in IdSpace : InMemoryProductRepository_delete(id)

SpecRepo == InitRepo /\ [][NextRepo]_vars

(* ------------------- paginate as a pure function ----------------------- *)
Iota(n) == [i \in 1..n |-> i]

ItemLists ==
    { Iota(n) : n \in 0..MaxLen } \cup
    UNION { [1..n -> 1..2] : n \in 0..MaxShort }

SortBys == {Undefined, Some("createdAt")}

SortOrders == {Undefined, Some("asc"), Some("desc")}

PaginationParams ==
    [page : 0..MaxPageArg, pageSize : 1..MaxSizeArg,
     sortBy : SortBys, sortOrder : SortOrders]

InitPaginate ==
    /\ RepoIdle
    /\ SharedIdle
    /\ FrontendIdle
    /\ ServiceIdle
    /\ items \in ItemLists
    /\ params \in PaginationParams
    /\ response = Undefined
    /\ walk = 1
    /\ collected = <<>>

\* one call paginate(items, params)
CallPaginate ==
    /\ response' = Some(paginate(items, params))
    /\ UNCHANGED <<items, params, walk, collected>>
    /\ UNCHANGED nonPageVars

\* a caller fetching page after page, from page 1 to one page past the last
WalkPage ==
    /\ walk <= MathCeilDiv(Len(items), params.pageSize) + 1
    /\ collected' = collected \o paginate(items, [params EXCEPT !.page = walk]).items
    /\ walk' = walk + 1
    /\ UNCHANGED <<items, params, response>>
    /\ UNCHANGED nonPageVars

NextPaginate ==
    \/ CallPaginate
    \/ WalkPage

SpecPaginate == InitPaginate /\ [][NextPaginate]_vars

(* ------------- repository methods as the services call them ------------ *)
\* a method's Result and the Map it leaves
Left(m, r) == [store |-> m, result |-> r]

Repo_findById(m, id) ==
    LET entity == MapGet(m, id)
    IN  IF ~Present(entity) THEN createError(EntityNotFound(id)) ELSE createSuccess(entity)

Repo_findPaginated(m, pp) == createSuccess(Some(paginate(MapValues(m), pp)))

Repo_save(m, entity, t) ==
    LET updated == touchEntity(entity, t)
    IN  Left(MapSet(m, updated), createSuccess(Some(updated)))

Repo_delete(m, id) ==
    IF ~MapHas(m, id)
    THEN Left(m, createError(EntityNotFound(id)))
    ELSE Left(MapDelete(m, id), createSuccess(Undefined))

UserRepository_findByEmail(m, email) ==
    LET hits == SelectSeq(MapValues(m), LAMBDA user : user.email = email)
    IN  IF hits # <<>>
        THEN createSuccess(Some(Head(hits)))
        ELSE createError([msg |-> "User with email not found", id |-> email])

ItemRepository_findByOwner(m, ownerId) ==
    createSuccess(Some(SelectSeq(MapValues(m), LAMBDA i : i.ownerId = ownerId)))

\* InMemoryUserRepository.save
Users_save(m, user) == Left(MapSet(m, user), success(Some(user)))

\* InMemoryUserRepository.delete
Users_delete(m, id) ==
    IF MapHas(m, id)
    THEN Left(MapDelete(m, id), success(Undefined))
    ELSE Left(m, failure(UserNotFound(id)))

\* InMemoryProductRepository.save
Products_save(m, product, t) ==
    LET updated == touchTimestamp(product, t)
    IN  Left(MapSet(m, updated), success(Some(updated)))

\* InMemoryProductRepository.delete
Products_delete(m, id) ==
    IF MapHas(m, id)
    THEN Left(MapDelete(m, id), success(Undefined))
    ELSE Left(m, failure(ProductNotFound(id)))

(* ------------- packages/backend/models.ts ------------------------------ *)
createBackendUser(t, r, email, name, passwordHash, role) ==
    LET fields == createEntityFields(t, r)
    IN  [id |-> fields.id, createdAt |-> fields.createdAt, updatedAt |-> fields.updatedAt,
         email |-> email, name |-> name, role |-> role, passwordHash |-> passwordHash,
         lastLoginAt |-> Undefined, loginCount |-> 0, isVerified |-> FALSE]

createBackendItem(t, r, title, description, ownerId, status) ==
    LET fields == createEntityFields(t, r)
    IN  [id |-> fields.id, createdAt |-> fields.createdAt, updatedAt |-> fields.updatedAt,
         title |-> title, description |-> description, ownerId |-> ownerId,
         status |-> status, views |-> 0, lastViewedAt |-> Undefined]

recordUserLogin(user, t) ==
    touchEntity([user EXCEPT !.lastLoginAt = Some(t), !.loginCount = user.loginCount + 1], t)

recordItemView(item, t) ==
    touchEntity([item EXCEPT !.views = item.views + 1, !.lastViewedAt = Some(t)], t)

toUserDto_withHash(user) ==
    [id |-> user.id, createdAt |-> user.createdAt, updatedAt |-> user.updatedAt,
     email |-> user.email, name |-> user.name, role |-> user.role,
     passwordHash |-> user.passwordHash]

toUserDto(user) ==
    [id |-> user.id, createdAt |-> user.createdAt, updatedAt |-> user.updatedAt,
     email |-> user.email, name |-> user.name, role |-> user.role]

toItemDto(item) ==
    [id |-> item.id, createdAt |-> item.createdAt, updatedAt |-> item.updatedAt,
     title |-> item.title, description |-> item.description, ownerId |-> item.ownerId,
     status |-> item.status]

(* ------------- src/models ---------------------------------------------- *)
createUser(t, r, email, username, displayName, role) ==
    LET stamps == createTimestamps(t)
    IN  [id |-> generateId(t, r), createdAt |-> stamps.createdAt,
         updatedAt |-> stamps.updatedAt, isActive |-> TRUE, email |-> email,
         username |-> username, displayName |-> displayName, role |-> role]

isAdmin(user) == user.role = "admin"

createProduct(t, r, name, description, sku, price, category) ==
    LET stamps == createTimestamps(t)
    IN  [id |-> generateId(t, r), createdAt |-> stamps.createdAt,
         updatedAt |-> stamps.updatedAt, isActive |-> TRUE, name |-> name,
         description |-> description, sku |-> sku, price |-> price,
         category |-> category, stockQuantity |-> 0, tags |-> <<>>]

RECURSIVE Unique(_)
\* [...new Set(list)]: the first occurrence of each element, in order
Unique(list) ==
    IF list = <<>>
    THEN <<>>
    ELSE LET front == Unique(SubSeq(list, 1, Len(list) - 1))
             last == list[Len(list)]
         IN  IF \E i \in 1..Len(front) : front[i] = last THEN front ELSE Append(front, last)

(* ------------- UserRepository / ItemRepository: derived queries -------- *)
Query_findByEmail(email) ==
    /\ impl = "UserRepository"
    /\ result' = UserRepository_findByEmail(store, email)
    /\ call' = CallOf("findByEmail", Some(email), Undefined, Undefined, FALSE)
    /\ UNCHANGED <<now, impl, store, users, products, lastSaved>>
    /\ UNCHANGED nonRepoVars

\* Array.from(this.store.values()).filter(u => u.role === role)
Query_findByRole(role) ==
    /\ impl = "UserRepository"
    /\ result' = createSuccess(Some(SelectSeq(MapValues(store), LAMBDA u : u.role = role)))
    /\ call' = CallOf("findByRole", Some(role), Undefined, Undefined, FALSE)
    /\ UNCHANGED <<now, impl, store, users, products, lastSaved>>
    /\ UNCHANGED nonRepoVars

Query_findVerified ==
    /\ impl = "UserRepository"
    /\ result' = createSuccess(Some(SelectSeq(MapValues(store), LAMBDA u : u.isVerified)))
    /\ call' = CallOf("findVerified", Undefined, Undefined, Undefined, FALSE)
    /\ UNCHANGED <<now, impl, store, users, products, lastSaved>>
    /\ UNCHANGED nonRepoVars

Query_findByOwner(ownerId) ==
    /\ impl = "ItemRepository"
    /\ result' = ItemRepository_findByOwner(store, ownerId)
    /\ call' = CallOf("findByOwner", Some(ownerId), Undefined, Undefined, FALSE)
    /\ UNCHANGED <<now, impl, store, users, products, lastSaved>>
    /\ UNCHANGED nonRepoVars

Query_findByStatus(status) ==
    /\ impl = "ItemRepository"
    /\ result' = createSuccess(Some(SelectSeq(MapValues(store), LAMBDA i : i.status = status)))
    /\ call' = CallOf("findByStatus", Some(status), Undefined, Undefined, FALSE)
    /\ UNCHANGED <<now, impl, store, users, products, lastSaved>>
    /\ UNCHANGED nonRepoVars

\* Array.prototype.sort is stable: items with equal views keep their order
ArraySortByViewsDesc(arr) ==
    LET before(i) == { j \in 1..Len(arr) :
                         \/ arr[j].views > arr[i].views
                         \/ arr[j].views = arr[i].views /\ j < i }
    IN  [k \in 1..Len(arr) |->
            arr[CHOOSE i \in 1..Len(arr) : Cardinality(before(i)) = k - 1]]

Query_findMostViewed_inPlace(limit) ==
    /\ impl = "ItemRepository"
    /\ store' = ArraySortByViewsDesc(store)
    /\ result' = createSuccess(Some(ArraySlice(store', 0, limit)))
    /\ call' = CallOf("findMostViewed", Some(limit), Undefined, Undefined, FALSE)
    /\ UNCHANGED <<now, impl, users, products, lastSaved>>
    /\ UNCHANGED nonRepoVars

\* Array.from(this.store.values()).sort((a, b) => b.views - a.views).slice(0, limit):
\* the copy made by Array.from is sorted, not the Map
Query_findMostViewed(limit) ==
    /\ impl = "ItemRepository"
    /\ result' = createSuccess(Some(
                     ArraySlice(ArraySortByViewsDesc(MapValues(store)), 0, limit)))
    /\ call' = CallOf("findMostViewed", Some(limit), Undefined, Undefined, FALSE)
    /\ UNCHANGED <<now, impl, store, users, products, lastSaved>>
    /\ UNCHANGED nonRepoVars

InitQueries ==
    /\ now = 0
    /\ impl \in {"UserRepository", "ItemRepository"}
    /\ store = <<>>
    /\ users = <<>>
    /\ products = <<>>
    /\ call = NoCall
    /\ result = Undefined
    /\ lastSaved = [id \in IdSpace |-> Undefined]
    /\ PageIdle
    /\ SharedIdle
    /\ FrontendIdle
    /\ ServiceIdle

\* Callers save users built at some earlier time with either email, role and
\* verification flag, and items with either owner and status that have been
\* viewed 0..MaxCount times, and ask for stored and absent values alike; the
\* clock stands still.
NextQueries ==
    \/ \E id \in IdSpace : InMemoryRepository_findById(id)
    \/ InMemoryRepository_findAll
    \/ \E pp \in [page : {1, 2}, pageSize : {1}] : InMemoryRepository_findPaginated(pp)
    \/ \E c \in 0..now, r \in Rands, email \in {"a@x", "b@x"}, role \in {"user", "admin"},
          isVerified \in BOOLEAN :
          /\ impl = "UserRepository"
          /\ InMemoryRepository_save(
                 [createBackendUser(c, r, email, "n", <<"hashed_", "p">>, role)
                     EXCEPT !.isVerified = isVerified])
    \/ \E c \in 0..now, r \in Rands, ownerId \in {"o1", "o2"},
          status \in {"draft", "published"}, views \in 0..MaxCount :
          /\ impl = "ItemRepository"
          /\ InMemoryRepository_save(
                 [createBackendItem(c, r, "t", "d", ownerId, status)
                     EXCEPT !.views = views])
    \/ \E id \in IdSpace : InMemoryRepository_delete(id)
    \/ \E email \in {"a@x", "b@x", "c@x"} : Query_findByEmail(email)
    \/ \E role \in {"user", "admin", "guest"} : Query_findByRole(role)
    \/ Query_findVerified
    \/ \E ownerId \in {"o1", "o2", "o3"} : Query_findByOwner(ownerId)
    \/ \E status \in {"draft", "published", "archived"} : Query_findByStatus(status)
    \/ \E limit \in 0..MaxStore : Query_findMostViewed(limit)

SpecQueries == InitQueries /\ [][NextQueries]_vars

(* ------------- the services, one operation at a time ------------------- *)
\* Each operation runs to its end before the next one starts, and reads the
\* clock once.
Services ==
    {"backend.UserService", "backend.ItemService", "core.UserService", "core.ProductService"}

\* the Map of the repository the service was constructed with
Repository ==
    CASE svc = "core.UserService" -> users
      [] svc = "core.ProductService" -> products
      [] OTHER -> store

\* the ids callers ask for: those stored and one that never is
AskedIds == { Repository[i].id : i \in 1..Len(Repository) } \cup {<<MaxTime + 1, 0>>}

InitServices ==
    /\ now = 0
    /\ impl = "InMemoryRepository"
    /\ store = <<>>
    /\ users = <<>>
    /\ products = <<>>
    /\ call = NoCall
    /\ result = Undefined
    /\ lastSaved = [id \in IdSpace |-> Undefined]
    /\ PageIdle
    /\ SharedIdle
    /\ FrontendIdle
    /\ svc \in Services
    /\ scall = [op |-> "none", args |-> <<>>]
    /\ sout = <<>>
    /\ eventEmitters = <<>>
    /\ published = <<>>
    /\ delivered = <<>>
    /\ tasks = <<>>
    /\ callOrder = <<>>
    /\ returned = <<>>
    /\ microtasks = <<>>

\* how an operation ends (it returns or throws) and the Map it leaves
Ended(m, out) ==
    [store |-> m, out |-> out, events |-> <<>>, delivered |-> <<>>,
     emitters |-> eventEmitters]

\* the promise resolves with value
Resolved(m, value) == Ended(m, Returned(Some(value)))

\* the operation op(args) has run to its end on the service's repository
Ran(service, op, args, ended) ==
    /\ svc = service
    /\ sout' = ended.out
    /\ scall' = [op |-> op, args |-> args]
    /\ published' = ended.events
    /\ delivered' = ended.delivered
    /\ CASE svc = "core.UserService" ->
                users' = ended.store /\ UNCHANGED <<store, products>>
         [] svc = "core.ProductService" ->
                products' = ended.store /\ UNCHANGED <<store, users>>
         [] OTHER ->
                store' = ended.store /\ UNCHANGED <<users, products>>
    /\ eventEmitters' = ended.emitters
    /\ UNCHANGED <<now, svc>>
    /\ UNCHANGED nonServiceVars

forEach_reversed(event, ended) ==
    [store |-> ended.store,
     out |-> ended.out,
     emitters |-> eventEmitters,
     events |-> Append(ended.events, event),
     delivered |-> ended.delivered \o
                     [i \in 1..Len(eventEmitters) |->
                         [handler |-> eventEmitters[Len(eventEmitters) + 1 - i],
                          event |-> event]]]

\* this.eventEmitters.forEach(emit => emit(event)): the handlers are called
\* in subscription order; a handler that throws ends the loop, and the error
\* leaves emitEvent and the operation that called it, whose remaining
\* statements (the return of ended.out) do not run. forEach visits the
\* indices below the length the array had when it was called: a handler that
\* calls onEvent while it runs ("subscriber") pushes a handler ("late") that
\* this forEach does not visit.
forEach(event, ended) ==
    LET throwing == { i \in 1..Len(eventEmitters) : eventEmitters[i] = "thrower" }
        last == IF throwing = {}
                THEN Len(eventEmitters)
                ELSE CHOOSE i \in throwing : \A j \in throwing : i <= j
        pushing == { i \in 1..last : eventEmitters[i] = "subscriber" }
        pushed == IF Cardinality(pushing) < MaxHandlers - Len(eventEmitters)
                  THEN Cardinality(pushing) ELSE MaxHandlers - Len(eventEmitters)
    IN  [store |-> ended.store,
         emitters |-> eventEmitters \o [j \in 1..pushed |-> "late"],
         out |-> IF throwing = {} THEN ended.out ELSE Thrown(ErrorMessage("handler failed")),
         events |-> Append(ended.events, event),
         delivered |-> ended.delivered \o
                         [i \in 1..last |-> [handler |-> eventEmitters[i], event |-> event]]]

\* UserService.emitEvent and ItemService.emitEvent of packages/backend, called
\* as the last statement before the operation returns ended.out
emitEvent(type, payload, ended) ==
    forEach([type |-> type, payload |-> payload, timestamp |-> now, source |-> "backend"],
            ended)

\* UserService.emitEvent and ProductService.emitEvent of src/services
core_emitEvent(type, entity, ended) ==
    forEach([type |-> type, entity |-> entity, timestamp |-> now], ended)

\* result.error ?? text
ErrorOr(r, text) == IF Present(r.error) THEN Get(r.error) ELSE ErrorMessage(text)

\* `Validation failed: ${validation.errors?.map(e => e.message).join(', ')}`
ValidationFailed(validation) ==
    [msg |-> "Validation failed",
     id |-> [i \in 1..Len(OrEmpty(validation.errors)) |-> OrEmpty(validation.errors)[i].message]]

\* `hashed_${password}`
hashPassword(password) == <<"hashed_", password>>

verifyPassword(password, hash) == hash = <<"hashed_", password>>

(* ------------- packages/backend UserService ---------------------------- *)
UserService_registerUser_savesFirst(email, name, password, role, r) ==
    LET roleOr == IF Present(role) THEN Get(role) ELSE "user"
        validation == validateUserDto([email |-> Some(email), name |-> Some(name),
                                       role |-> Some(roleOr)])
        existing == UserRepository_findByEmail(store, email)
        user == createBackendUser(now, r, email, name, hashPassword(password), roleOr)
        saveResult == Repo_save(store, user, now)
    IN  /\ svc = "backend.UserService"
        /\ Room(store, user)
        /\ Ran("backend.UserService", "registerUser", <<email, name, password, role>>,
               IF ~validation.ok
               THEN Resolved(saveResult.store, createError(ValidationFailed(validation)))
               ELSE IF existing.ok
               THEN Resolved(saveResult.store,
                             createError(ErrorMessage("Email already in use")))
               ELSE emitEvent("created", toUserDto(user),
                        Resolved(saveResult.store, createSuccess(Some(toUserDto(user))))))

\* r: the Math.random() suffix drawn by createEntityFields
UserService_registerUser(email, name, password, role, r) ==
    LET roleOr == IF Present(role) THEN Get(role) ELSE "user"
        validation == validateUserDto([email |-> Some(email), name |-> Some(name),
                                       role |-> Some(roleOr)])
        existing == UserRepository_findByEmail(store, email)
        user == createBackendUser(now, r, email, name, hashPassword(password), roleOr)
        saveResult == Repo_save(store, user, now)
        unwrapped == unwrapResult(saveResult.result)
    IN  /\ svc = "backend.UserService"
        /\ Room(store, user)
        /\ Ran("backend.UserService", "registerUser", <<email, name, password, role>>,
               IF ~validation.ok
               THEN Resolved(store, createError(ValidationFailed(validation)))
               ELSE IF existing.ok
               THEN Resolved(store, createError(ErrorMessage("Email already in use")))
               ELSE IF ~saveResult.result.ok
               THEN Resolved(saveResult.store,
                             createError(ErrorOr(saveResult.result, "Failed to save user")))
               ELSE IF unwrapped.kind = "throw"
               THEN Ended(saveResult.store, unwrapped)
               ELSE emitEvent("created", toUserDto(Get(unwrapped.value)),
                        Resolved(saveResult.store,
                                 createSuccess(Some(toUserDto(Get(unwrapped.value)))))))

UserService_authenticateUser(email, password) ==
    LET userResult == UserRepository_findByEmail(store, email)
        unwrapped == unwrapResult(userResult)
        user == Get(unwrapped.value)
        updatedUser == recordUserLogin(user, now)
    IN  /\ svc = "backend.UserService"
        /\ \A i \in 1..Len(store) : store[i].loginCount < MaxCount
        /\ Ran("backend.UserService", "authenticateUser", <<email, password>>,
               IF ~userResult.ok
               THEN Resolved(store, createError(ErrorMessage("Invalid credentials")))
               ELSE IF unwrapped.kind = "throw"
               THEN Ended(store, unwrapped)
               ELSE IF ~verifyPassword(password, user.passwordHash)
               THEN Resolved(store, createError(ErrorMessage("Invalid credentials")))
               ELSE Resolved(Repo_save(store, updatedUser, now).store,
                             createSuccess(Some(toUserDto(updatedUser)))))

\* the body of getUserById run on the repository contents m
getUserById(m, id) ==
    LET found == Repo_findById(m, id)
        unwrapped == unwrapResult(found)
    IN  IF ~found.ok
        THEN Resolved(m, createError(ErrorOr(found, "User not found")))
        ELSE IF unwrapped.kind = "throw"
        THEN Ended(m, unwrapped)
        ELSE Resolved(m, createSuccess(Some(toUserDto(Get(unwrapped.value)))))

UserService_getUserById_unchecked(id) ==
    LET unwrapped == unwrapResult(Repo_findById(store, id))
    IN  Ran("backend.UserService", "getUserById", <<id>>,
            IF unwrapped.kind = "throw"
            THEN Ended(store, unwrapped)
            ELSE Resolved(store, createSuccess(Some(toUserDto(Get(unwrapped.value))))))

UserService_getUserById(id) ==
    Ran("backend.UserService", "getUserById", <<id>>, getUserById(store, id))

\* the body of listUsers run on the repository contents m
listUsers(m, pp) ==
    LET listed == Repo_findPaginated(m, pp)
        unwrapped == unwrapResult(listed)
        page == Get(unwrapped.value)
    IN  IF ~listed.ok
        THEN Resolved(m, createError(ErrorOr(listed, "Failed to list users")))
        ELSE IF unwrapped.kind = "throw"
        THEN Ended(m, unwrapped)
        ELSE Resolved(m, createSuccess(Some(
                 [page EXCEPT !.items = [i \in 1..Len(page.items) |->
                                            toUserDto(page.items[i])]])))

UserService_listUsers(pp) ==
    Ran("backend.UserService", "listUsers", <<pp>>, listUsers(store, pp))

\* updates: Partial<Pick<UserDto, 'name' | 'role'>>
\* the body of updateUser run on the repository contents m
updateUser(m, id, updates) ==
    LET existingResult == Repo_findById(m, id)
        unwrapped == unwrapResult(existingResult)
        existing == Get(unwrapped.value)
        updated == [existing EXCEPT
                       !.name = IF Present(updates.name) THEN Get(updates.name) ELSE @,
                       !.role = IF Present(updates.role) THEN Get(updates.role) ELSE @]
        saveResult == Repo_save(m, updated, now)
        unwrappedSave == unwrapResult(saveResult.result)
    IN  IF ~existingResult.ok
        THEN Resolved(m, createError(ErrorOr(existingResult, "User not found")))
        ELSE IF unwrapped.kind = "throw"
        THEN Ended(m, unwrapped)
        ELSE IF ~saveResult.result.ok
        THEN Resolved(saveResult.store,
                      createError(ErrorOr(saveResult.result, "Failed to update user")))
        ELSE IF unwrappedSave.kind = "throw"
        THEN Ended(saveResult.store, unwrappedSave)
        ELSE emitEvent("updated", toUserDto(Get(unwrappedSave.value)),
                 Resolved(saveResult.store,
                          createSuccess(Some(toUserDto(Get(unwrappedSave.value))))))

UserService_updateUser(id, updates) ==
    Ran("backend.UserService", "updateUser", <<id, updates>>, updateUser(store, id, updates))

UserService_deleteUser(id) ==
    LET existingResult == Repo_findById(store, id)
        unwrapped == unwrapResult(existingResult)
        deleted == Repo_delete(store, id)
    IN  Ran("backend.UserService", "deleteUser", <<id>>,
            IF ~existingResult.ok
            THEN Resolved(store, createError(ErrorOr(existingResult, "User not found")))
            ELSE IF unwrapped.kind = "throw"
            THEN Ended(store, unwrapped)
            ELSE IF deleted.result.ok
            THEN emitEvent("deleted", toUserDto(Get(unwrapped.value)),
                     Resolved(deleted.store, deleted.result))
            ELSE Resolved(deleted.store, deleted.result))

(* ------------- packages/backend ItemService ---------------------------- *)
ItemService_createItem(title, description, ownerId, status, r) ==
    LET statusOr == IF Present(status) THEN Get(status) ELSE "draft"
        validation == validateItemDto([title |-> Some(title),
                                       description |-> Some(description),
                                       ownerId |-> Some(ownerId),
                                       status |-> Some(statusOr)])
        item == createBackendItem(now, r, title, description, ownerId, statusOr)
        saveResult == Repo_save(store, item, now)
        unwrapped == unwrapResult(saveResult.result)
    IN  /\ svc = "backend.ItemService"
        /\ Room(store, item)
        /\ Ran("backend.ItemService", "createItem", <<title, description, ownerId, status>>,
               IF ~validation.ok
               THEN Resolved(store, createError(ValidationFailed(validation)))
               ELSE IF ~saveResult.result.ok
               THEN Resolved(saveResult.store,
                             createError(ErrorOr(saveResult.result, "Failed to save item")))
               ELSE IF unwrapped.kind = "throw"
               THEN Ended(saveResult.store, unwrapped)
               ELSE emitEvent("created", toItemDto(Get(unwrapped.value)),
                        Resolved(saveResult.store,
                                 createSuccess(Some(toItemDto(Get(unwrapped.value)))))))

ItemService_getItemById(id) ==
    LET found == Repo_findById(store, id)
        unwrapped == unwrapResult(found)
        viewed == recordItemView(Get(unwrapped.value), now)
    IN  /\ svc = "backend.ItemService"
        /\ \A i \in 1..Len(store) : store[i].views < MaxCount
        /\ Ran("backend.ItemService", "getItemById", <<id>>,
               IF ~found.ok
               THEN Resolved(store, createError(ErrorOr(found, "Item not found")))
               ELSE IF unwrapped.kind = "throw"
               THEN Ended(store, unwrapped)
               ELSE Resolved(Repo_save(store, viewed, now).store,
                             createSuccess(Some(toItemDto(viewed)))))

ItemService_listItems(pp) ==
    LET listed == Repo_findPaginated(store, pp)
        unwrapped == unwrapResult(listed)
        page == Get(unwrapped.value)
    IN  Ran("backend.ItemService", "listItems", <<pp>>,
            IF ~listed.ok
            THEN Resolved(store, createError(ErrorOr(listed, "Failed to list items")))
            ELSE IF unwrapped.kind = "throw"
            THEN Ended(store, unwrapped)
            ELSE Resolved(store, createSuccess(Some(
                     [page EXCEPT !.items = [i \in 1..Len(page.items) |->
                                                toItemDto(page.items[i])]]))))

ItemService_getItemsByOwner(ownerId) ==
    LET owned == ItemRepository_findByOwner(store, ownerId)
        unwrapped == unwrapResult(owned)
        list == Get(unwrapped.value)
    IN  Ran("backend.ItemService", "getItemsByOwner", <<ownerId>>,
            IF ~owned.ok
            THEN Resolved(store, createError(ErrorOr(owned, "Failed to get items")))
            ELSE IF unwrapped.kind = "throw"
            THEN Ended(store, unwrapped)
            ELSE Resolved(store, createSuccess(
                     Some([i \in 1..Len(list) |-> toItemDto(list[i])]))))

ItemService_updateItemStatus(id, status) ==
    LET existingResult == Repo_findById(store, id)
        unwrapped == unwrapResult(existingResult)
        updated == [Get(unwrapped.value) EXCEPT !.status = status]
        saveResult == Repo_save(store, updated, now)
        unwrappedSave == unwrapResult(saveResult.result)
    IN  Ran("backend.ItemService", "updateItemStatus", <<id, status>>,
            IF ~existingResult.ok
            THEN Resolved(store, createError(ErrorOr(existingResult, "Item not found")))
            ELSE IF unwrapped.kind = "throw"
            THEN Ended(store, unwrapped)
            ELSE IF ~saveResult.result.ok
            THEN Resolved(saveResult.store,
                          createError(ErrorOr(saveResult.result, "Failed to update item")))
            ELSE IF unwrappedSave.kind = "throw"
            THEN Ended(saveResult.store, unwrappedSave)
            ELSE emitEvent("updated", toItemDto(Get(unwrappedSave.value)),
                     Resolved(saveResult.store,
                              createSuccess(Some(toItemDto(Get(unwrappedSave.value)))))))

ItemService_deleteItem(id) ==
    LET existingResult == Repo_findById(store, id)
        unwrapped == unwrapResult(existingResult)
        deleted == Repo_delete(store, id)
    IN  Ran("backend.ItemService", "deleteItem", <<id>>,
            IF ~existingResult.ok
            THEN Resolved(store, createError(ErrorOr(existingResult, "Item not found")))
            ELSE IF unwrapped.kind = "throw"
            THEN Ended(store, unwrapped)
            ELSE IF deleted.result.ok
            THEN emitEvent("deleted", toItemDto(Get(unwrapped.value)),
                     Resolved(deleted.store, deleted.result))
            ELSE Resolved(deleted.store, deleted.result))

(* ------------- src/services UserService -------------------------------- *)
\* r: the Math.random() suffix drawn by generateId
core_UserService_registerUser(email, username, displayName, r) ==
    LET user == createUser(now, r, email, username, displayName, "viewer")
        saved == Users_save(users, user)
    IN  /\ svc = "core.UserService"
        /\ Room(users, user)
        /\ Ran("core.UserService", "registerUser", <<email, username, displayName>>,
               IF saved.result.success /\ Present(saved.result.data)
               THEN core_emitEvent("create", Get(saved.result.data),
                        Resolved(saved.store, saved.result))
               ELSE Resolved(saved.store, saved.result))

\* this.users.get(id) ?? null
core_UserService_getUserById(id) ==
    Ran("core.UserService", "getUserById", <<id>>,
        IF Present(MapGet(users, id))
        THEN core_emitEvent("read", Get(MapGet(users, id)),
                 Resolved(users, MapGet(users, id)))
        ELSE Resolved(users, MapGet(users, id)))

core_UserService_getAllUsers ==
    Ran("core.UserService", "getAllUsers", <<>>, Resolved(users, MapValues(users)))

core_UserService_updateUserProfile_stale(id, updates) ==
    LET existing == MapGet(users, id)
        saved == Users_save(users, touchTimestamp(Get(existing), Get(existing).createdAt))
    IN  Ran("core.UserService", "updateUserProfile", <<id, updates>>,
            IF ~Present(existing)
            THEN Resolved(users, failure(UserNotFound(id)))
            ELSE IF saved.result.success /\ Present(saved.result.data)
            THEN core_emitEvent("update", Get(saved.result.data),
                     Resolved(saved.store, saved.result))
            ELSE Resolved(saved.store, saved.result))

\* updates: Partial<Pick<User, 'displayName' | 'email'>>
core_UserService_updateUserProfile(id, updates) ==
    LET existing == MapGet(users, id)
        updated == touchTimestamp(
            [Get(existing) EXCEPT
                !.displayName = IF Present(updates.displayName)
                                THEN Get(updates.displayName) ELSE @,
                !.email = IF Present(updates.email) THEN Get(updates.email) ELSE @],
            now)
        saved == Users_save(users, updated)
    IN  Ran("core.UserService", "updateUserProfile", <<id, updates>>,
            IF ~Present(existing)
            THEN Resolved(users, failure(UserNotFound(id)))
            ELSE IF saved.result.success /\ Present(saved.result.data)
            THEN core_emitEvent("update", Get(saved.result.data),
                     Resolved(saved.store, saved.result))
            ELSE Resolved(saved.store, saved.result))

core_UserService_changeUserRole_anyActor(actorId, targetUserId, newRole) ==
    LET actor == MapGet(users, actorId)
        target == MapGet(users, targetUserId)
        saved == Users_save(users, touchTimestamp([Get(target) EXCEPT !.role = newRole], now))
    IN  Ran("core.UserService", "changeUserRole", <<actorId, targetUserId, newRole>>,
            IF ~Present(actor)
            THEN Resolved(users, failure(ErrorMessage("Only admins can change user roles")))
            ELSE IF ~Present(target)
            THEN Resolved(users, failure(UserNotFound(targetUserId)))
            ELSE Resolved(saved.store, saved.result))

core_UserService_changeUserRole(actorId, targetUserId, newRole) ==
    LET actor == MapGet(users, actorId)
        target == MapGet(users, targetUserId)
        saved == Users_save(users, touchTimestamp([Get(target) EXCEPT !.role = newRole], now))
    IN  Ran("core.UserService", "changeUserRole", <<actorId, targetUserId, newRole>>,
            IF ~Present(actor) \/ ~isAdmin(Get(actor))
            THEN Resolved(users, failure(ErrorMessage("Only admins can change user roles")))
            ELSE IF ~Present(target)
            THEN Resolved(users, failure(UserNotFound(targetUserId)))
            ELSE Resolved(saved.store, saved.result))

core_UserService_deactivateUser(id) ==
    LET user == MapGet(users, id)
        saved == Users_save(users, touchTimestamp([Get(user) EXCEPT !.isActive = FALSE], now))
    IN  Ran("core.UserService", "deactivateUser", <<id>>,
            IF ~Present(user)
            THEN Resolved(users, failure(UserNotFound(id)))
            ELSE IF saved.result.success /\ Present(saved.result.data)
            THEN core_emitEvent("update", Get(saved.result.data),
                     Resolved(saved.store, saved.result))
            ELSE Resolved(saved.store, saved.result))

core_UserService_deleteUser(id) ==
    LET deleted == Users_delete(users, id)
    IN  Ran("core.UserService", "deleteUser", <<id>>,
            IF Present(MapGet(users, id))
            THEN IF deleted.result.success
                 THEN core_emitEvent("delete", Get(MapGet(users, id)),
                          Resolved(deleted.store, deleted.result))
                 ELSE Resolved(deleted.store, deleted.result)
            ELSE Resolved(users, failure(UserNotFound(id))))

(* ------------- src/services ProductService ----------------------------- *)
ProductService_createProduct(name, description, sku, price, category, r) ==
    LET product == createProduct(now, r, name, description, sku, price, category)
        saved == Products_save(products, product, now)
    IN  /\ svc = "core.ProductService"
        /\ Room(products, product)
        /\ Ran("core.ProductService", "createProduct",
               <<name, description, sku, price, category>>,
               IF saved.result.success /\ Present(saved.result.data)
               THEN core_emitEvent("create", Get(saved.result.data),
                        Resolved(saved.store, saved.result))
               ELSE Resolved(saved.store, saved.result))

ProductService_getProductById(id) ==
    Ran("core.ProductService", "getProductById", <<id>>,
        IF Present(MapGet(products, id))
        THEN core_emitEvent("read", Get(MapGet(products, id)),
                 Resolved(products, MapGet(products, id)))
        ELSE Resolved(products, MapGet(products, id)))

ProductService_getAllProducts ==
    Ran("core.ProductService", "getAllProducts", <<>>,
        Resolved(products, MapValues(products)))

ProductService_updateProductStock(id, quantity) ==
    LET product == MapGet(products, id)
        updated == touchTimestamp([Get(product) EXCEPT !.stockQuantity = quantity], now)
        saved == Products_save(products, updated, now)
    IN  Ran("core.ProductService", "updateProductStock", <<id, quantity>>,
            IF ~Present(product)
            THEN Resolved(products, failure(ProductNotFound(id)))
            ELSE IF saved.result.success /\ Present(saved.result.data)
            THEN core_emitEvent("update", Get(saved.result.data),
                     Resolved(saved.store, saved.result))
            ELSE Resolved(saved.store, saved.result))

ProductService_updateProductPrice(id, price) ==
    LET product == MapGet(products, id)
        updated == touchTimestamp([Get(product) EXCEPT !.price = price], now)
        saved == Products_save(products, updated, now)
    IN  Ran("core.ProductService", "updateProductPrice", <<id, price>>,
            IF ~Present(product)
            THEN Resolved(products, failure(ProductNotFound(id)))
            ELSE Resolved(saved.store, saved.result))

ProductService_addProductTags(id, tags) ==
    LET product == MapGet(products, id)
        uniqueTags == Unique(Get(product).tags \o tags)
        updated == touchTimestamp([Get(product) EXCEPT !.tags = uniqueTags], now)
        saved == Products_save(products, updated, now)
    IN  Ran("core.ProductService", "addProductTags", <<id, tags>>,
            IF ~Present(product)
            THEN Resolved(products, failure(ProductNotFound(id)))
            ELSE Resolved(saved.store, saved.result))

ProductService_deactivateProduct(id) ==
    LET product == MapGet(products, id)
        deactivated == touchTimestamp([Get(product) EXCEPT !.isActive = FALSE], now)
        saved == Products_save(products, deactivated, now)
    IN  Ran("core.ProductService", "deactivateProduct", <<id>>,
            IF ~Present(product)
            THEN Resolved(products, failure(ProductNotFound(id)))
            ELSE IF saved.result.success /\ Present(saved.result.data)
            THEN core_emitEvent("update", Get(saved.result.data),
                     Resolved(saved.store, saved.result))
            ELSE Resolved(saved.store, saved.result))

ProductService_deleteProduct(id) ==
    LET deleted == Products_delete(products, id)
    IN  Ran("core.ProductService", "deleteProduct", <<id>>,
            IF Present(MapGet(products, id))
            THEN IF deleted.result.success
                 THEN core_emitEvent("delete", Get(MapGet(products, id)),
                          Resolved(deleted.store, deleted.result))
                 ELSE Resolved(deleted.store, deleted.result)
            ELSE Resolved(products, failure(ProductNotFound(id))))

\* Callers pass a valid and an invalid value of every validated field; users
\* register with password "p", and "q" is the wrong password.
Operations ==
    \/ \E email \in {<<"a", "@", "a", ".", "a">>, <<".", "@", "a", ".", "a">>, <<"a">>},
          name \in {<<"a", "a">>, <<"a">>}, r \in Rands :
          UserService_registerUser(email, name, "p", Undefined, r)
    \/ \E email \in {<<"a", "@", "a", ".", "a">>, <<".", "@", "a", ".", "a">>, <<"a">>},
          password \in {"p", "q"} : UserService_authenticateUser(email, password)
    \/ \E id \in AskedIds : UserService_getUserById(id)
    \/ \E pp \in [page : {1}, pageSize : {MaxPageSize}] : UserService_listUsers(pp)
    \/ \E id \in AskedIds,
          updates \in [name : {Undefined, Some(<<"a", "a", "a">>)}, role : {Undefined}] :
          UserService_updateUser(id, updates)
    \/ \E id \in AskedIds : UserService_deleteUser(id)
    \/ \E title \in {<<"a", "a">>, <<>>}, ownerId \in {<<>>, <<0, 0>>}, r \in Rands :
          ItemService_createItem(title, <<"a">>, ownerId, Undefined, r)
    \/ \E id \in AskedIds : ItemService_getItemById(id)
    \/ \E pp \in [page : {1}, pageSize : {MaxPageSize}] : ItemService_listItems(pp)
    \/ \E ownerId \in {<<0, 0>>} : ItemService_getItemsByOwner(ownerId)
    \/ \E id \in AskedIds : ItemService_updateItemStatus(id, "published")
    \/ \E id \in AskedIds : ItemService_deleteItem(id)
    \/ \E r \in Rands : core_UserService_registerUser("ann@x", "ann", "Ann", r)
    \/ \E id \in AskedIds : core_UserService_getUserById(id)
    \/ core_UserService_getAllUsers
    \/ \E id \in AskedIds, updates \in [displayName : {Some("Bee")}, email : {Undefined}] :
          core_UserService_updateUserProfile(id, updates)
    \/ \E actorId \in AskedIds, targetUserId \in AskedIds :
          core_UserService_changeUserRole(actorId, targetUserId, "admin")
    \/ \E id \in AskedIds : core_UserService_deactivateUser(id)
    \/ \E id \in AskedIds : core_UserService_deleteUser(id)
    \/ \E price \in {[amount |-> 2, currency |-> "USD"]}, r \in Rands :
          ProductService_createProduct("pen", "a pen", "sku-1", price, "other", r)
    \/ \E id \in AskedIds : ProductService_getProductById(id)
    \/ ProductService_getAllProducts
    \/ \E id \in AskedIds : ProductService_updateProductStock(id, 0)
    \/ \E id \in AskedIds : ProductService_updateProductPrice(id, [amount |-> 2, currency |-> "USD"])
    \/ \E id \in AskedIds : ProductService_addProductTags(id, <<"new">>)
    \/ \E id \in AskedIds : ProductService_deactivateProduct(id)
    \/ \E id \in AskedIds : ProductService_deleteProduct(id)

NextServices == Tick \/ Operations

SpecServices == InitServices /\ [][NextServices]_vars

(* ------------- subscribers --------------------------------------------- *)
\* onEvent(emitter): void { this.eventEmitters.push(emitter); }
UserService_onEvent(emitter) ==
    /\ svc = "backend.UserService"
    /\ Len(eventEmitters) < MaxHandlers
    /\ eventEmitters' = Append(eventEmitters, emitter)
    /\ scall' = [op |-> "onEvent", args |-> <<emitter>>]
    /\ sout' = Returned(Undefined)
    /\ published' = <<>>
    /\ delivered' = <<>>
    /\ UNCHANGED <<now, svc, store, users, products>>
    /\ UNCHANGED nonServiceVars

ItemService_onEvent(emitter) ==
    /\ svc = "backend.ItemService"
    /\ Len(eventEmitters) < MaxHandlers
    /\ eventEmitters' = Append(eventEmitters, emitter)
    /\ scall' = [op |-> "onEvent", args |-> <<emitter>>]
    /\ sout' = Returned(Undefined)
    /\ published' = <<>>
    /\ delivered' = <<>>
    /\ UNCHANGED <<now, svc, store, users, products>>
    /\ UNCHANGED nonServiceVars

\* onEvent(handler): void { this.eventHandlers.push(handler); }
core_UserService_onEvent(handler) ==
    /\ svc = "core.UserService"
    /\ Len(eventEmitters) < MaxHandlers
    /\ eventEmitters' = Append(eventEmitters, handler)
    /\ scall' = [op |-> "onEvent", args |-> <<handler>>]
    /\ sout' = Returned(Undefined)
    /\ published' = <<>>
    /\ delivered' = <<>>
    /\ UNCHANGED <<now, svc, store, users, products>>
    /\ UNCHANGED nonServiceVars

ProductService_onEvent(handler) ==
    /\ svc = "core.ProductService"
    /\ Len(eventEmitters) < MaxHandlers
    /\ eventEmitters' = Append(eventEmitters, handler)
    /\ scall' = [op |-> "onEvent", args |-> <<handler>>]
    /\ sout' = Returned(Undefined)
    /\ published' = <<>>
    /\ delivered' = <<>>
    /\ UNCHANGED <<now, svc, store, users, products>>
    /\ UNCHANGED nonServiceVars

\* The services with subscribers: two handlers that return and one that
\* throws subscribe in any order, between operations that all read the
\* clock at the same value.
NextEvents ==
    \/ \E emitter \in {"h1", "h2", "thrower"} : UserService_onEvent(emitter)
    \/ \E emitter \in {"h1", "h2", "thrower"} : ItemService_onEvent(emitter)
    \/ \E handler \in {"h1", "h2", "thrower"} : core_UserService_onEvent(handler)
    \/ \E handler \in {"h1", "h2", "thrower"} : ProductService_onEvent(handler)
    \/ Operations

SpecEvents == InitServices /\ [][NextEvents]_vars

\* The services with a subscriber that subscribes another handler whenever it
\* is passed an event, next to one that returns and one that throws.
NextSubscribe ==
    \/ \E emitter \in {"h1", "subscriber", "thrower"} : UserService_onEvent(emitter)
    \/ \E emitter \in {"h1", "subscriber", "thrower"} : ItemService_onEvent(emitter)
    \/ \E handler \in {"h1", "subscriber", "thrower"} : core_UserService_onEvent(handler)
    \/ \E handler \in {"h1", "subscriber", "thrower"} : ProductService_onEvent(handler)
    \/ Operations

SpecSubscribe == InitServices /\ [][NextSubscribe]_vars

(* ------------- calls in flight ----------------------------------------- *)
\* An async method runs from its call to its first await, and from one await
\* to the next, without interruption; between two such pieces the pieces of
\* other calls may run. SpecAsync has MaxTasks callers, each making one call:
\* with no service (svc = "none") the calls are those of one
\* InMemoryRepository, whose methods contain no await; with a service they
\* are its delete operation, which awaits findById and then delete.

\* the body of an InMemoryRepository method, run on the Map m at time t
InMemoryRepository_body(m, c, t) ==
    CASE c.op = "findById" -> Left(m, Repo_findById(m, Get(c.id)))
      [] c.op = "findAll" -> Left(m, createSuccess(Some(MapValues(m))))
      [] c.op = "findPaginated" -> Left(m, Repo_findPaginated(m, Get(c.params)))
      [] c.op = "save" -> Repo_save(m, Get(c.entity), t)
      [] c.op = "delete" -> Repo_delete(m, Get(c.id))

\* a caller that has not made its call
IdleTask ==
    [op |-> "none", arg |-> Undefined, pc |-> "idle", found |-> Undefined,
     result |-> Undefined, removed |-> Undefined, held |-> Undefined]

\* the entities the service's create operation stored at time 0
SeededStore(service) ==
    [i \in 1..MaxStore |->
        CASE service = "backend.UserService" ->
                 touchEntity(createBackendUser(0, i - 1, <<"a", "@", "a", ".", "a">>,
                                               <<"a", "a">>, <<"hashed_", "p">>, "user"), 0)
          [] service = "backend.ItemService" ->
                 touchEntity(createBackendItem(0, i - 1, <<"a", "a">>, <<"a">>, <<0, 0>>,
                                               "draft"), 0)
          [] service = "core.UserService" ->
                 createUser(0, i - 1, "ann@x", "ann", "Ann", "viewer")
          [] service = "core.ProductService" ->
                 touchTimestamp(createProduct(0, i - 1, "pen", "a pen", "sku-1",
                                              [amount |-> 2, currency |-> "USD"], "other"),
                                0)]

InitAsync ==
    /\ now = 0
    /\ impl = "InMemoryRepository"
    /\ svc \in {"none", "backend.UserService", "backend.ItemService",
                 "core.UserService", "core.ProductService"}
    /\ store = IF svc \in {"backend.UserService", "backend.ItemService"}
               THEN SeededStore(svc) ELSE <<>>
    /\ users = IF svc = "core.UserService" THEN SeededStore(svc) ELSE <<>>
    /\ products = IF svc = "core.ProductService" THEN SeededStore(svc) ELSE <<>>
    /\ call = NoCall
    /\ result = Undefined
    /\ lastSaved = [id \in IdSpace |-> Undefined]
    /\ PageIdle
    /\ SharedIdle
    /\ FrontendIdle
    /\ scall = [op |-> "none", args |-> <<>>]
    /\ sout = <<>>
    /\ eventEmitters = IF svc = "none" THEN <<>> ELSE <<"h1", "h2">>
    /\ published = <<>>
    /\ delivered = <<>>
    /\ tasks = [k \in 1..MaxTasks |-> IdleTask]
    /\ callOrder = <<>>
    /\ returned = <<>>
    /\ microtasks = <<>>

\* caller k calls method c.op of the repository: the body runs at the call,
\* and the promise it returns already holds the result
InMemoryRepository_call_lostWrite(k, c) ==
    /\ svc = "none"
    /\ tasks[k].pc = "idle"
    /\ c.op = "save" => Room(store, Get(c.entity))
    /\ LET left == InMemoryRepository_body(store, c, now)
       IN  /\ store' = IF \E j \in 1..MaxTasks : tasks[j].pc = "awaitCall"
                       THEN store ELSE left.store
           /\ tasks' = [tasks EXCEPT ![k] =
                           [IdleTask EXCEPT !.op = c.op, !.arg = c, !.pc = "awaitCall",
                                            !.result = Some(left.result)]]
    /\ callOrder' = Append(callOrder, k)
    /\ UNCHANGED <<now, impl, users, products, call, result, lastSaved>>
    /\ UNCHANGED <<pageVars, sharedVars, serviceVars, frontendVars, returned, microtasks>>

InMemoryRepository_call(k, c) ==
    /\ svc = "none"
    /\ tasks[k].pc = "idle"
    /\ c.op = "save" => Room(store, Get(c.entity))
    /\ LET left == InMemoryRepository_body(store, c, now)
       IN  /\ store' = left.store
           /\ tasks' = [tasks EXCEPT ![k] =
                           [IdleTask EXCEPT !.op = c.op, !.arg = c, !.pc = "awaitCall",
                                            !.result = Some(left.result)]]
    /\ callOrder' = Append(callOrder, k)
    /\ UNCHANGED <<now, impl, users, products, call, result, lastSaved>>
    /\ UNCHANGED <<pageVars, sharedVars, serviceVars, frontendVars, returned, microtasks>>

\* `await this.repository.<method>(..)` resumes in caller k with the result
Await_resumed(k) ==
    /\ svc = "none"
    /\ tasks[k].pc = "awaitCall"
    /\ tasks' = [tasks EXCEPT ![k].pc = "done"]
    /\ UNCHANGED <<repoVars, pageVars, sharedVars, serviceVars, callOrder, frontendVars, returned, microtasks>>

\* deleteUser / deleteItem / deleteProduct(id) is called: it runs up to
\* `await this.repository.findById(id)`, whose body reads the Map
delete_called(k, id) ==
    /\ svc \in Services
    /\ tasks[k].pc = "idle"
    /\ tasks' = [tasks EXCEPT ![k] =
                    [IdleTask EXCEPT
                        !.op = "delete", !.arg = Some(id), !.pc = "awaitFind",
                        !.found = IF svc \in {"backend.UserService", "backend.ItemService"}
                                  THEN Some(Repo_findById(store, id))
                                  ELSE Some(MapGet(Repository, id))]]
    /\ callOrder' = Append(callOrder, k)
    /\ UNCHANGED <<repoVars, pageVars, sharedVars, serviceVars, frontendVars, returned>>

\* the operation resumes with what findById returned: not found ends it with
\* a failure; otherwise it runs up to `await this.repository.delete(id)`,
\* whose body removes the entry. removed: the entry as this step found it.
delete_afterFindById(k) ==
    LET id == Get(tasks[k].arg)
        found == Get(tasks[k].found)
        deleted == CASE svc = "core.UserService" -> Users_delete(users, id)
                     [] svc = "core.ProductService" -> Products_delete(products, id)
                     [] OTHER -> Repo_delete(store, id)
        missing == CASE svc = "core.UserService" -> ~Present(found)
                     [] svc = "core.ProductService" -> ~Present(found)
                     [] OTHER -> ~found.ok
        failed == CASE svc = "core.UserService" -> failure(UserNotFound(id))
                    [] svc = "core.ProductService" -> failure(ProductNotFound(id))
                    [] svc = "backend.UserService" ->
                           createError(ErrorOr(found, "User not found"))
                    [] OTHER -> createError(ErrorOr(found, "Item not found"))
    IN  /\ svc \in Services
        /\ tasks[k].pc = "awaitFind"
        /\ IF missing
           THEN /\ tasks' = [tasks EXCEPT ![k].pc = "done", ![k].result = Some(failed)]
                /\ UNCHANGED <<store, users, products>>
           ELSE /\ tasks' = [tasks EXCEPT ![k].pc = "awaitDelete",
                                          ![k].result = Some(deleted.result),
                                          ![k].removed = MapGet(Repository, id)]
                /\ CASE svc = "core.UserService" ->
                           users' = deleted.store /\ UNCHANGED <<store, products>>
                     [] svc = "core.ProductService" ->
                           products' = deleted.store /\ UNCHANGED <<store, users>>
                     [] OTHER ->
                           store' = deleted.store /\ UNCHANGED <<users, products>>
        /\ UNCHANGED <<now, impl, call, result, lastSaved, callOrder>>
        /\ UNCHANGED <<pageVars, sharedVars, serviceVars, frontendVars, returned>>

delete_afterDelete_always(k) ==
    LET found == Get(tasks[k].found)
        done == [store |-> Repository, out |-> Returned(tasks[k].result),
                 events |-> published, delivered |-> delivered]
        ended == CASE svc = "backend.UserService" ->
                          emitEvent("deleted", toUserDto(Get(found.value)), done)
                   [] svc = "backend.ItemService" ->
                          emitEvent("deleted", toItemDto(Get(found.value)), done)
                   [] OTHER -> core_emitEvent("delete", Get(found), done)
    IN  /\ svc \in Services
        /\ tasks[k].pc = "awaitDelete"
        /\ tasks' = [tasks EXCEPT ![k].pc = "done"]
        /\ published' = ended.events
        /\ delivered' = ended.delivered
        /\ UNCHANGED <<returned, frontendVars, repoVars, pageVars, sharedVars, svc, scall, sout, eventEmitters,
                       callOrder>>

\* the operation resumes with what delete returned: on success it publishes
\* the entity that findById had returned, and it returns the result
delete_afterDelete(k) ==
    LET found == Get(tasks[k].found)
        deleted == Get(tasks[k].result)
        done == [store |-> Repository, out |-> Returned(tasks[k].result),
                 events |-> published, delivered |-> delivered]
        ended == CASE svc = "backend.UserService" ->
                          IF deleted.ok
                          THEN emitEvent("deleted", toUserDto(Get(found.value)), done)
                          ELSE done
                   [] svc = "backend.ItemService" ->
                          IF deleted.ok
                          THEN emitEvent("deleted", toItemDto(Get(found.value)), done)
                          ELSE done
                   [] OTHER ->
                          IF deleted.success
                          THEN core_emitEvent("delete", Get(found), done)
                          ELSE done
    IN  /\ svc \in Services
        /\ tasks[k].pc = "awaitDelete"
        /\ tasks' = [tasks EXCEPT ![k].pc = "done"]
        /\ published' = ended.events
        /\ delivered' = ended.delivered
        /\ UNCHANGED <<returned, frontendVars, repoVars, pageVars, sharedVars, svc, scall, sout, eventEmitters,
                       callOrder>>

\* Callers of the repository find, save and delete the entities of two ids;
\* callers of a service delete a stored id or one that was never stored.
NextAsync ==
    \/ \E k \in 1..MaxTasks,
          c \in { CallOf(op, Some(id), Undefined, Undefined, FALSE) :
                     op \in {"findById", "delete"}, id \in {<<0, 0>>, <<0, 1>>} }
                \cup { CallOf("findAll", Undefined, Undefined, Undefined, FALSE),
                       CallOf("findPaginated", Undefined, Undefined,
                              Some([page |-> 1, pageSize |-> 1]), FALSE) }
                \cup { CallOf("save", Undefined, Some(entity), Undefined, FALSE) :
                          entity \in HoldableEntities(0) } :
          InMemoryRepository_call(k, c)
    \/ \E k \in 1..MaxTasks : Await_resumed(k)
    \/ \E k \in 1..MaxTasks, id \in {<<0, 0>>, <<0, 1>>, <<MaxTime + 1, 0>>} :
          delete_called(k, id) /\ UNCHANGED microtasks
    \/ \E k \in 1..MaxTasks : delete_afterFindById(k) /\ UNCHANGED microtasks
    \/ \E k \in 1..MaxTasks : delete_afterDelete(k) /\ UNCHANGED microtasks

SpecAsync == InitAsync /\ [][NextAsync]_vars

(* ------------- packages/backend services, calls interleaved ------------ *)
\* Every call of UserService and ItemService runs from one await to the next
\* without interruption; between two awaits of one call the other calls in
\* flight may run. found holds what the awaited repository call returned,
\* held the entity the call is about to return. Handlers subscribe before the
\* first call, and generateUniqueId gives out no id twice.
InitInterleaved ==
    /\ RepoIdle
    /\ PageIdle
    /\ SharedIdle
    /\ FrontendIdle
    /\ svc \in {"backend.UserService", "backend.ItemService"}
    /\ scall = [op |-> "none", args |-> <<>>]
    /\ sout = <<>>
    /\ eventEmitters = <<>>
    /\ published = <<>>
    /\ delivered = <<>>
    /\ tasks = [k \in 1..MaxTasks |-> IdleTask]
    /\ callOrder = <<>>
    /\ returned = <<>>
    /\ microtasks = <<>>

\* what the bodies of the operations have left so far
SoFar == [store |-> store, out |-> Undefined, events |-> published, delivered |-> delivered]

\* the job queue after the call of caller k has run up to an await, whose
\* promise is settled already, or has returned
Queued(queue, k, task) == IF task.pc = "done" THEN queue ELSE Append(queue, k)

\* the suspended call of caller k is the next job to run
Resumes(k) == microtasks # <<>> /\ Head(microtasks) = k

\* caller k makes a call, which runs up to its first await (or returns)
Began(k, service, task, m) ==
    /\ svc = service
    /\ tasks[k].pc = "idle"
    /\ Len(callOrder) < MaxCalls
    /\ tasks' = [tasks EXCEPT ![k] = task]
    /\ callOrder' = Append(callOrder, k)
    /\ microtasks' = Queued(microtasks, k, task)
    /\ store' = m
    /\ UNCHANGED <<now, impl, users, products, call, result, lastSaved, returned>>
    /\ UNCHANGED <<pageVars, sharedVars, serviceVars, frontendVars>>

\* the call of caller k resumes at pc and runs up to its next await (or returns)
Continued(k, service, ops, pc, task, ended) ==
    /\ svc = service
    /\ Resumes(k)
    /\ tasks[k].pc = pc
    /\ tasks[k].op \in ops
    /\ tasks' = [tasks EXCEPT ![k] = task]
    /\ microtasks' = Queued(Tail(microtasks), k, task)
    /\ store' = ended.store
    /\ published' = ended.events
    /\ delivered' = ended.delivered
    /\ UNCHANGED <<now, impl, users, products, call, result, lastSaved>>
    /\ UNCHANGED <<svc, scall, sout, eventEmitters, callOrder, returned>>
    /\ UNCHANGED <<pageVars, sharedVars, frontendVars>>

Task(op, args) == [IdleTask EXCEPT !.op = op, !.arg = args]

Return(task, r) == [task EXCEPT !.pc = "done", !.result = Some(r)]

Await(task, pc, found) == [task EXCEPT !.pc = pc, !.found = Some(found)]

\* registerUser up to `await this.repository.findByEmail(email)`
registerUser_called(k, email, name, password) ==
    LET validation == validateUserDto([email |-> Some(email), name |-> Some(name),
                                       role |-> Some("user")])
        task == Task("registerUser", <<email, name, password>>)
    IN  Began(k, "backend.UserService",
              IF ~validation.ok
              THEN Return(task, createError(ValidationFailed(validation)))
              ELSE Await(task, "awaitFindByEmail", UserRepository_findByEmail(store, email)),
              store)

\* .. up to `await this.hashPassword(password)`
registerUser_afterFindByEmail(k) ==
    Continued(k, "backend.UserService", {"registerUser"}, "awaitFindByEmail",
              IF Get(tasks[k].found).ok
              THEN Return(tasks[k], createError(ErrorMessage("Email already in use")))
              ELSE Await(tasks[k], "awaitHashPassword", hashPassword(tasks[k].arg[3])),
              SoFar)

\* an id that generateUniqueId has not given out before
Fresh(id) ==
    /\ ~MapHas(store, id)
    /\ \A i \in 1..Len(published) : published[i].payload.id # id
    /\ \A j \in 1..MaxTasks :
           tasks[j].pc = "awaitSave" => Get(Get(tasks[j].found).value).id # id

\* .. up to `await this.repository.save(user)`; r: the Math.random() suffix
\* drawn by createEntityFields
registerUser_afterHashPassword(k, r) ==
    LET args == tasks[k].arg
        user == createBackendUser(now, r, args[1], args[2], Get(tasks[k].found), "user")
        saveResult == Repo_save(store, user, now)
    IN  /\ tasks[k].pc = "awaitHashPassword"
        /\ Fresh(user.id)
        /\ Room(store, user)
        /\ Continued(k, "backend.UserService", {"registerUser"}, "awaitHashPassword",
                     Await(tasks[k], "awaitSave", saveResult.result),
                     [SoFar EXCEPT !.store = saveResult.store])

\* createItem up to `await this.repository.save(item)`
createItem_called(k, title, description, ownerId, r) ==
    LET validation == validateItemDto([title |-> Some(title),
                                       description |-> Some(description),
                                       ownerId |-> Some(ownerId), status |-> Some("draft")])
        item == createBackendItem(now, r, title, description, ownerId, "draft")
        saveResult == Repo_save(store, item, now)
        task == Task("createItem", <<title, description, ownerId, r>>)
    IN  /\ svc = "backend.ItemService"
        /\ Fresh(item.id)
        /\ Room(store, item)
        /\ Began(k, "backend.ItemService",
                 IF ~validation.ok
                 THEN Return(task, createError(ValidationFailed(validation)))
                 ELSE Await(task, "awaitSave", saveResult.result),
                 IF ~validation.ok THEN store ELSE saveResult.store)

\* registerUser / createItem / updateUser / updateItemStatus after their save:
\* the dto of the saved entity is published and returned
afterSave(k) ==
    LET saveResult == Get(tasks[k].found)
        failed == CASE tasks[k].op = "registerUser" -> "Failed to save user"
                    [] tasks[k].op = "createItem" -> "Failed to save item"
                    [] tasks[k].op = "updateUser" -> "Failed to update user"
                    [] OTHER -> "Failed to update item"
        dto == IF svc = "backend.UserService"
               THEN toUserDto(Get(unwrapResult(saveResult).value))
               ELSE toItemDto(Get(unwrapResult(saveResult).value))
        type == IF tasks[k].op \in {"registerUser", "createItem"} THEN "created" ELSE "updated"
    IN  Continued(k, svc, {"registerUser", "createItem", "updateUser", "updateItemStatus"},
                  "awaitSave",
                  IF ~saveResult.ok
                  THEN Return(tasks[k], createError(ErrorOr(saveResult, failed)))
                  ELSE Return(tasks[k], createSuccess(Some(dto))),
                  IF ~saveResult.ok THEN SoFar ELSE emitEvent(type, dto, SoFar))

\* updateUser / updateItemStatus up to `await this.repository.findById(id)`
update_called(k, id, updates) ==
    Began(k, svc,
          Await(Task(IF svc = "backend.UserService" THEN "updateUser" ELSE "updateItemStatus",
                     <<id, updates>>),
                "awaitFind", Repo_findById(store, id)),
          store)

\* .. up to `await this.repository.save(updated)`: { ...existing, ...updates }
update_afterFindById(k) ==
    LET existingResult == Get(tasks[k].found)
        existing == Get(unwrapResult(existingResult).value)
        updates == tasks[k].arg[2]
        updated == [f \in DOMAIN existing |->
                       IF f \in DOMAIN updates /\ Present(updates[f])
                       THEN Get(updates[f]) ELSE existing[f]]
        saveResult == Repo_save(store, updated, now)
    IN  Continued(k, svc, {"updateUser", "updateItemStatus"}, "awaitFind",
                  IF ~existingResult.ok
                  THEN Return(tasks[k], createError(ErrorOr(existingResult,
                           IF svc = "backend.UserService" THEN "User not found"
                           ELSE "Item not found")))
                  ELSE Await(tasks[k], "awaitSave", saveResult.result),
                  IF ~existingResult.ok THEN SoFar ELSE [SoFar EXCEPT !.store = saveResult.store])

\* authenticateUser up to `await this.repository.findByEmail(email)`
authenticateUser_called(k, email, password) ==
    /\ svc = "backend.UserService"
    /\ \A i \in 1..Len(store) : store[i].loginCount < MaxCount
    /\ Began(k, "backend.UserService",
             Await(Task("authenticateUser", <<email, password>>), "awaitFindByEmail",
                   UserRepository_findByEmail(store, email)),
             store)

\* .. up to `await this.verifyPassword(password, user.passwordHash)`
authenticateUser_afterFindByEmail(k) ==
    LET userResult == Get(tasks[k].found)
        user == Get(unwrapResult(userResult).value)
    IN  Continued(k, "backend.UserService", {"authenticateUser"}, "awaitFindByEmail",
                  IF ~userResult.ok
                  THEN Return(tasks[k], createError(ErrorMessage("Invalid credentials")))
                  ELSE [Await(tasks[k], "awaitVerifyPassword",
                              verifyPassword(tasks[k].arg[2], user.passwordHash))
                           EXCEPT !.held = Some(user)],
                  SoFar)

\* .. up to `await this.repository.save(updatedUser)`
authenticateUser_afterVerifyPassword(k) ==
    LET user == Get(tasks[k].held)
        updatedUser == recordUserLogin(user, now)
    IN  Continued(k, "backend.UserService", {"authenticateUser"}, "awaitVerifyPassword",
                  IF ~Get(tasks[k].found)
                  THEN Return(tasks[k], createError(ErrorMessage("Invalid credentials")))
                  ELSE [tasks[k] EXCEPT !.pc = "awaitSaved", !.held = Some(updatedUser)],
                  IF ~Get(tasks[k].found) THEN SoFar
                  ELSE [SoFar EXCEPT !.store = Repo_save(store, updatedUser, now).store])

\* getItemById up to `await this.repository.findById(id)`
getItemById_called(k, id) ==
    /\ svc = "backend.ItemService"
    /\ \A i \in 1..Len(store) : store[i].views < MaxCount
    /\ Began(k, "backend.ItemService",
             Await(Task("getItemById", <<id>>), "awaitFind", Repo_findById(store, id)),
             store)

\* .. up to `await this.repository.save(viewed)`
getItemById_afterFindById(k) ==
    LET found == Get(tasks[k].found)
        item == Get(unwrapResult(found).value)
        viewed == recordItemView(item, now)
    IN  Continued(k, "backend.ItemService", {"getItemById"}, "awaitFind",
                  IF ~found.ok
                  THEN Return(tasks[k], createError(ErrorOr(found, "Item not found")))
                  ELSE [tasks[k] EXCEPT !.pc = "awaitSaved", !.held = Some(viewed)],
                  IF ~found.ok THEN SoFar
                  ELSE [SoFar EXCEPT !.store = Repo_save(store, viewed, now).store])

\* authenticateUser / getItemById after their save, whose result they ignore
afterSaved(k) ==
    Continued(k, svc, {"authenticateUser", "getItemById"}, "awaitSaved",
              Return(tasks[k], createSuccess(Some(
                  IF svc = "backend.UserService" THEN toUserDto(Get(tasks[k].held))
                  ELSE toItemDto(Get(tasks[k].held))))),
              SoFar)

\* the caller takes the result of its call
Call_returned(k) ==
    /\ tasks[k].pc = "done"
    /\ tasks' = [tasks EXCEPT ![k] = IdleTask]
    /\ returned' = Append(returned, [op |-> tasks[k].op, arg |-> tasks[k].arg,
                                     result |-> Get(tasks[k].result)])
    /\ UNCHANGED <<repoVars, pageVars, sharedVars, serviceVars, callOrder, frontendVars,
                   microtasks>>

NextInterleaved ==
    \/ callOrder = <<>> /\ eventEmitters = <<>> /\ UserService_onEvent("h1")
    \/ callOrder = <<>> /\ eventEmitters = <<>> /\ ItemService_onEvent("h1")
    \/ \E k \in 1..MaxTasks, email \in {<<"a", "@", "a", ".", "a">>, <<"a">>} :
          registerUser_called(k, email, <<"a", "a">>, "p")
    \/ \E k \in 1..MaxTasks : registerUser_afterFindByEmail(k)
    \/ \E k \in 1..MaxTasks, r \in Rands : registerUser_afterHashPassword(k, r)
    \/ \E k \in 1..MaxTasks, r \in Rands :
          createItem_called(k, <<"a", "a">>, <<"a">>, <<0, 0>>, r)
    \/ \E k \in 1..MaxTasks : afterSave(k)
    \/ \E k \in 1..MaxTasks, id \in {<<0, 0>>},
          updates \in IF svc = "backend.UserService"
                      THEN {[name |-> Some(<<"b", "b">>), role |-> Undefined],
                            [name |-> Undefined, role |-> Some("admin")]}
                      ELSE {[status |-> Some("published")]} :
          update_called(k, id, updates)
    \/ \E k \in 1..MaxTasks : update_afterFindById(k)
    \/ \E k \in 1..MaxTasks : authenticateUser_called(k, <<"a", "@", "a", ".", "a">>, "p")
    \/ \E k \in 1..MaxTasks : authenticateUser_afterFindByEmail(k)
    \/ \E k \in 1..MaxTasks : authenticateUser_afterVerifyPassword(k)
    \/ \E k \in 1..MaxTasks : getItemById_called(k, <<0, 0>>)
    \/ \E k \in 1..MaxTasks : getItemById_afterFindById(k)
    \/ \E k \in 1..MaxTasks : afterSaved(k)
    \/ \E k \in 1..MaxTasks :
          /\ Len(callOrder) < MaxCalls
          /\ delete_called(k, <<0, 0>>)
          /\ microtasks' = Append(microtasks, k)
    \/ \E k \in 1..MaxTasks :
          /\ Resumes(k)
          /\ tasks[k].op = "delete"
          /\ delete_afterFindById(k)
          /\ microtasks' = Queued(Tail(microtasks), k, tasks'[k])
    \/ \E k \in 1..MaxTasks :
          /\ Resumes(k)
          /\ tasks[k].op = "delete"
          /\ delete_afterDelete(k)
          /\ microtasks' = Tail(microtasks)
    \/ \E k \in 1..MaxTasks : Call_returned(k)

SpecInterleaved == InitInterleaved /\ [][NextInterleaved]_vars

(* ------------- src/services UserService over a given repository -------- *)
\* The service's repository is also reachable by whoever constructed it.
InitRoles ==
    /\ InitServices
    /\ svc = "core.UserService"

\* the holder of the repository saves an administrator into it directly
Repository_saveAdmin ==
    LET admin == createUser(now, 0, "root@x", "root", "Root", "admin")
    IN  /\ svc = "core.UserService"
        /\ Room(users, admin)
        /\ users' = Users_save(users, admin).store
        /\ scall' = [op |-> "save", args |-> <<admin>>]
        /\ sout' = Returned(Undefined)
        /\ published' = <<>>
        /\ delivered' = <<>>
        /\ UNCHANGED <<now, svc, eventEmitters, store, products>>
        /\ UNCHANGED nonServiceVars

NextRoles ==
    \/ Repository_saveAdmin
    \/ \E r \in Rands : core_UserService_registerUser("ann@x", "ann", "Ann", r)
    \/ \E id \in AskedIds : core_UserService_getUserById(id)
    \/ core_UserService_getAllUsers
    \/ \E id \in AskedIds, updates \in [displayName : {Some("Bee")}, email : {Undefined}] :
          core_UserService_updateUserProfile(id, updates)
    \/ \E actorId \in AskedIds, targetUserId \in AskedIds, newRole \in {"admin", "viewer"} :
          core_UserService_changeUserRole(actorId, targetUserId, newRole)
    \/ \E id \in AskedIds : core_UserService_deactivateUser(id)
    \/ \E id \in AskedIds : core_UserService_deleteUser(id)

SpecRoles == InitRoles /\ [][NextRoles]_vars

(* ------------- packages/frontend/api.ts ApiClient ---------------------- *)
\* an Error instance; thrown values that are no Error have isError FALSE
Error(name, text) == [isError |-> TRUE, name |-> name, message |-> ErrorMessage(text)]

NotAnError == [isError |-> FALSE, name |-> "", message |-> ErrorMessage("")]

\* the bodies a server sends: text that is no JSON, the JSON null, and objects
\* with and without a message
Bodies ==
    [kind : {"invalid", "null"}, message : {Undefined}]
        \cup [kind : {"object"}, message : {Undefined, Some(ErrorMessage("denied"))}]

\* Response.ok
Response(status, body) == [ok |-> status \in 200..299, status |-> status, body |-> body]

Responses == { Response(status, body) : status \in {200, 404}, body \in Bodies }

\* response.json(); the stream can also fail while the body is read
response_json(resp, readFails) ==
    IF readFails THEN Thrown(Error("TypeError", "network error"))
    ELSE IF resp.body.kind = "invalid" THEN Thrown(Error("SyntaxError", "Unexpected token"))
    ELSE Returned(resp.body)

\* `HTTP ${response.status}`
HttpStatus(status) == [msg |-> "HTTP", id |-> Some(status)]

\* the catch block of request
request_catch(error) ==
    IF error.isError
    THEN IF error.name = "AbortError"
         THEN createError(ErrorMessage("Request timeout"))
         ELSE createError(error.message)
    ELSE createError(ErrorMessage("Unknown error"))

\* the statements of request after `await fetch(..)` has given a non-ok
\* response: response.json().catch(() => ({})), then errorData.message
request_notOk(resp, readFails) ==
    LET parsed == response_json(resp, readFails)
        errorData == IF parsed.kind = "throw"
                     THEN [kind |-> "object", message |-> Undefined]
                     ELSE parsed.value
    IN  IF errorData.kind = "null"
        THEN request_catch(Error("TypeError", "Cannot read properties of null"))
        ELSE createError(IF Present(errorData.message)
                         THEN Get(errorData.message)
                         ELSE HttpStatus(resp.status))

\* the statements of request after `await fetch(..)` has given an ok response
request_ok(resp, readFails) ==
    LET parsed == response_json(resp, readFails)
    IN  IF parsed.kind = "throw"
        THEN request_catch(Get(parsed.error))
        ELSE createSuccess(Some(parsed.value))

InitApi ==
    /\ RepoIdle
    /\ PageIdle
    /\ SharedIdle
    /\ ServiceIdle
    /\ FrontendIdle

\* request(method, path, body) up to `await fetch(..)`; JSON.stringify throws
\* on a body with a cycle, after the timer was set
ApiClient_request(method, path, body) ==
    /\ Len(requests) < MaxRequests
    /\ requests' = Append(requests,
           [method |-> method, path |-> path, timer |-> "armed", aborted |-> FALSE,
            response |-> Undefined,
            pc |-> IF body = Some("cyclic") THEN "done" ELSE "awaitFetch",
            out |-> IF body = Some("cyclic")
                    THEN Some(Returned(request_catch(
                             Error("TypeError", "Converting circular structure to JSON"))))
                    ELSE Undefined])
    /\ UNCHANGED <<notificationVars, nonFrontendVars>>

\* the response arrives: clearTimeout(timeoutId), then response.json() is called
fetch_resolved(k, resp) ==
    /\ requests[k].pc = "awaitFetch"
    /\ requests' = [requests EXCEPT
           ![k].timer = "cleared",
           ![k].response = Some(resp),
           ![k].pc = IF resp.ok THEN "awaitJson" ELSE "awaitErrorJson"]
    /\ UNCHANGED <<notificationVars, nonFrontendVars>>

\* fetch rejects for a reason of its own (no connection, a refused request)
fetch_rejected(k, error) ==
    /\ requests[k].pc = "awaitFetch"
    /\ requests' = [requests EXCEPT
           ![k].pc = "done",
           ![k].out = Some(Returned(request_catch(error)))]
    /\ UNCHANGED <<notificationVars, nonFrontendVars>>

\* () => controller.abort(); a pending fetch rejects with an AbortError
setTimeout_fired(k) ==
    /\ requests[k].timer = "armed"
    /\ requests' = [requests EXCEPT
           ![k].timer = "fired",
           ![k].aborted = TRUE,
           ![k].pc = IF @ = "awaitFetch" THEN "done" ELSE @,
           ![k].out = IF requests[k].pc = "awaitFetch"
                      THEN Some(Returned(request_catch(
                               Error("AbortError", "This operation was aborted"))))
                      ELSE @]
    /\ UNCHANGED <<notificationVars, nonFrontendVars>>

\* response.json() settles and request returns
json_settled(k, readFails) ==
    /\ requests[k].pc \in {"awaitJson", "awaitErrorJson"}
    /\ requests' = [requests EXCEPT
           ![k].pc = "done",
           ![k].out = Some(Returned(
               IF requests[k].pc = "awaitJson"
               THEN request_ok(Get(requests[k].response), readFails)
               ELSE request_notOk(Get(requests[k].response), readFails)))]
    /\ UNCHANGED <<notificationVars, nonFrontendVars>>

NextApi ==
    \/ \E method \in {"GET", "POST"}, body \in {Undefined, Some("plain"), Some("cyclic")} :
          ApiClient_request(method, "/users/me", body)
    \/ \E k \in 1..Len(requests), resp \in Responses : fetch_resolved(k, resp)
    \/ \E k \in 1..Len(requests),
          error \in {Error("TypeError", "Failed to fetch"), NotAnError} :
          fetch_rejected(k, error)
    \/ \E k \in 1..Len(requests) : setTimeout_fired(k)
    \/ \E k \in 1..Len(requests), readFails \in BOOLEAN : json_settled(k, readFails)

SpecApi == InitApi /\ [][NextApi]_vars

\* ---------------------------------------------------------------------------
\* NotificationManager (packages/frontend/state.ts)
\* ---------------------------------------------------------------------------

\* duration: number = 5000
DefaultDuration == 5000

\* `notification-${n}`
NotificationId(n) == <<"notification-", n>>

NotificationIds == { NotificationId(n) : n \in 1..MaxNotifications }

\* The listeners that are passed list by this.listeners.forEach(listener =>
\* listener(this.notifications)): a listener that throws ends the loop.
notifyListeners(list) ==
    LET throwing == { i \in 1..Len(listeners) : listeners[i] = "thrower" }
        last == IF throwing = {}
                THEN Len(listeners)
                ELSE CHOOSE i \in throwing : \A j \in throwing : i <= j
    IN  [invoked |-> [i \in 1..last |-> [listener |-> listeners[i], list |-> list]],
         threw |-> throwing # {}]

InitNotify ==
    /\ RepoIdle
    /\ PageIdle
    /\ SharedIdle
    /\ ServiceIdle
    /\ tasks = <<>>
    /\ callOrder = <<>>
    /\ returned = <<>>
    /\ microtasks = <<>>
    /\ FrontendIdle

NotificationManager_add(type, message, duration) ==
    LET id == NotificationId(idCounter + 1)
        notification == [id |-> id, type |-> type, message |-> message,
                         duration |-> IF Present(duration)
                                      THEN Get(duration) ELSE DefaultDuration]
        told == notifyListeners(Append(notifications, notification))
    IN  /\ idCounter < MaxNotifications
        /\ idCounter' = idCounter + 1
        /\ notifications' = Append(notifications, notification)
        /\ notified' = told.invoked
        /\ timers' = IF ~told.threw /\ notification.duration > 0
                     THEN timers \cup {id} ELSE timers
        /\ ncall' = [op |-> "add", args |-> <<type, message, duration>>,
                     out |-> IF told.threw
                             THEN Thrown(ErrorMessage("listener failed"))
                             ELSE Returned(id)]
        /\ UNCHANGED <<listeners, requests>>
        /\ UNCHANGED nonFrontendVars

\* remove(id), called by op: the caller ("remove") or the timer that add set
\* ("timeout")
Removed(op, id) ==
    LET left == SelectSeq(notifications, LAMBDA n : n.id # id)
        told == notifyListeners(left)
    IN  /\ notifications' = left
        /\ notified' = told.invoked
        /\ ncall' = [op |-> op, args |-> <<id>>,
                     out |-> IF told.threw
                             THEN Thrown(ErrorMessage("listener failed"))
                             ELSE Returned(Undefined)]
        /\ UNCHANGED <<listeners, idCounter, requests>>
        /\ UNCHANGED nonFrontendVars

NotificationManager_remove(id) ==
    /\ Removed("remove", id)
    /\ UNCHANGED timers

\* setTimeout(() => this.remove(id), duration): the timer fires
Timeout_fired(id) ==
    /\ id \in timers
    /\ timers' = timers \ {id}
    /\ Removed("timeout", id)

NotificationManager_subscribe(listener) ==
    /\ Len(listeners) < MaxListeners
    /\ listeners' = Append(listeners, listener)
    /\ notified' = <<>>
    /\ ncall' = [op |-> "subscribe", args |-> <<listener>>, out |-> Returned(Undefined)]
    /\ UNCHANGED <<notifications, idCounter, timers, requests>>
    /\ UNCHANGED nonFrontendVars

\* the function that subscribe(listener) returned is called
NotificationManager_unsubscribe(listener) ==
    /\ \E i \in 1..Len(listeners) : listeners[i] = listener
    /\ listeners' = SelectSeq(listeners, LAMBDA l : l # listener)
    /\ notified' = <<>>
    /\ ncall' = [op |-> "unsubscribe", args |-> <<listener>>, out |-> Returned(Undefined)]
    /\ UNCHANGED <<notifications, idCounter, timers, requests>>
    /\ UNCHANGED nonFrontendVars

NotificationManager_getAll ==
    /\ notified' = <<>>
    /\ ncall' = [op |-> "getAll", args |-> <<>>, out |-> Returned(notifications)]
    /\ UNCHANGED <<notifications, listeners, idCounter, timers, requests>>
    /\ UNCHANGED nonFrontendVars

NextNotify ==
    \/ \E type \in {"info", "error"}, duration \in {Undefined, Some(-1), Some(0), Some(1)} :
           NotificationManager_add(type, "m", duration)
    \/ \E id \in NotificationIds : NotificationManager_remove(id)
    \/ \E id \in NotificationIds : Timeout_fired(id)
    \/ \E listener \in {"l1", "l2", "thrower"} : NotificationManager_subscribe(listener)
    \/ \E listener \in {"l1", "l2", "thrower"} : NotificationManager_unsubscribe(listener)
    \/ NotificationManager_getAll

SpecNotify == InitNotify /\ [][NextNotify]_vars

\* Timers eventually fire.
SpecNotifyFair ==
    SpecNotify /\ \A id \in NotificationIds : WF_vars(Timeout_fired(id))

(* ------------------- the shared package's pure functions --------------- *)
Optional(S) == {Undefined} \cup { Some(x) : x \in S }

\* The calls made, one function of the package and its arguments:
\* unwrapResult on every shape the Result type admits; the validators on the
\* strings of the bounds and on DTOs with each field absent, failing a rule or
\* valid; combineValidations on lists of every shape ValidationResult admits.
FCalls ==
    LET results == [ok : BOOLEAN,
                    value : Optional(HoldableEntities(MaxTime)),
                    error : Optional({ErrorMessage("Failed to save user"),
                                      EntityNotFound(<<0, 0>>)})]
        names == Strings(MaxNameLen) \cup
                 { [i \in 1..n |-> c] :
                       c \in Alphabet, n \in (MaxNameLength - 1)..(MaxNameLength + 1) }
        long == [i \in 1..(MaxNameLength + 1) |-> "a"]
        users_ == [email : Optional(Strings(1) \cup {<<"a", "@", "a", ".", "a">>}),
                   name : Optional(Strings(1) \cup {<<"a", "a">>, long}),
                   role : Optional({"user"})]
        items_ == [title : Optional({<<>>, <<"a">>, <<"a", "a">>, long}),
                   description : Optional({<<>>, <<"a">>}),
                   ownerId : Optional({<<>>, <<0, 0>>}),
                   status : Optional({"draft"})]
        errors == { FieldError("email", <<"Email is required">>, "REQUIRED"),
                    FieldError("name", <<"name", " is required">>, "REQUIRED") }
        validations == [ok : BOOLEAN,
                        errors : Optional({<<>>} \cup { <<e>> : e \in errors }
                                          \cup { <<e1, e2>> : e1 \in errors, e2 \in errors })]
        made(fn, args) == [fn |-> fn, given |-> args]
    IN  { made("unwrapResult", <<r>>) : r \in results }
        \cup { made("validateEmail", <<email>>) : email \in Strings(MaxEmailLen) }
        \cup { made("validateName", <<name, fieldName>>) :
                   name \in names, fieldName \in {"name", "title"} }
        \cup { made("validateUserDto", <<user>>) : user \in users_ }
        \cup { made("validateItemDto", <<item>>) : item \in items_ }
        \cup { made("combineValidations", <<list>>) :
                   list \in UNION { [1..k -> validations] : k \in 0..MaxResults } }

\* a call is pending until its function has produced its outcome
Pending(fn) == fcall.fn = fn /\ fout = <<>>

InitShared ==
    /\ RepoIdle
    /\ PageIdle
    /\ FrontendIdle
    /\ ServiceIdle
    /\ fcall \in FCalls
    /\ fout = <<>>

Unwrap ==
    /\ Pending("unwrapResult")
    /\ fout' = Some(unwrapResult(fcall.given[1]))
    /\ UNCHANGED <<fcall, nonSharedVars>>

ValidateEmail ==
    /\ Pending("validateEmail")
    /\ fout' = Some(validateEmail(fcall.given[1]))
    /\ UNCHANGED <<fcall, nonSharedVars>>

ValidateName ==
    /\ Pending("validateName")
    /\ fout' = Some(validateName(fcall.given[1], fcall.given[2]))
    /\ UNCHANGED <<fcall, nonSharedVars>>

ValidateUserDto ==
    /\ Pending("validateUserDto")
    /\ fout' = Some(validateUserDto(fcall.given[1]))
    /\ UNCHANGED <<fcall, nonSharedVars>>

ValidateItemDto ==
    /\ Pending("validateItemDto")
    /\ fout' = Some(validateItemDto(fcall.given[1]))
    /\ UNCHANGED <<fcall, nonSharedVars>>

CombineValidations ==
    /\ Pending("combineValidations")
    /\ fout' = Some(combineValidations(fcall.given[1]))
    /\ UNCHANGED <<fcall, nonSharedVars>>

NextShared ==
    \/ Unwrap
    \/ ValidateEmail
    \/ ValidateName
    \/ ValidateUserDto
    \/ ValidateItemDto
    \/ CombineValidations

SpecShared == InitShared /\ [][NextShared]_vars

(* ------------------------- reading the state --------------------------- *)
\* the Map of the repository class under exercise
TheMap ==
    CASE impl = "InMemoryRepository" -> store
      [] impl = "InMemoryUserRepository" -> users
      [] OTHER -> products

Generic == impl = "InMemoryRepository"

Called(op) == call.op = op

\* ok and value/error presence agree, both ways
ResultValid(r) ==
    /\ r.ok <=> (Present(r.value) /\ ~Present(r.error))
    /\ ~r.ok <=> (Present(r.error) /\ ~Present(r.value))

\* the entity a save of argument e at time t is to store
Touched(e, t) == [e EXCEPT !.updatedAt = t]

\* the outcome of a save / delete reports success
Succeeded(r) == IF Generic THEN r.ok ELSE r.success

\* the value carried by a successful save
Carried(r) == IF Generic THEN r.value ELSE r.data

\* findById(id) reports that nothing is stored under id
LookupMissed(r, id) ==
    IF Generic
    THEN ~r.ok /\ ~Present(r.value) /\ r.error = Some(EntityNotFound(id))
    ELSE r = Null

\* delete(id) reports that nothing is stored under id
DeleteMissed(r, id) ==
    CASE impl = "InMemoryRepository" ->
           ~r.ok /\ r.error = Some(EntityNotFound(id))
      [] impl = "InMemoryUserRepository" ->
           ~r.success /\ r.error = Some(UserNotFound(id))
      [] OTHER ->
           ~r.success /\ r.error = Some(ProductNotFound(id))

Occurrences(list, id) == Cardinality({ i \in 1..Len(list) : list[i].id = id })

(* ------------------------------- C1 ------------------------------------ *)
\* C1: every Result returned by an InMemoryRepository operation (findById,
\* findAll, findPaginated, save, delete) has ok = true exactly when value is
\* present and error absent, and ok = false exactly when error is present and
\* value absent; the Result of a successful delete included.
C1_ResultInvariant ==
    (Generic /\ ~Called("none")) => ResultValid(result)

(* ------------------------------- C2 ------------------------------------ *)
\* C2: when save(e) is followed by findById(e.id) with no save or delete of
\* that id in between, findById succeeds and the fetched value has e's id and
\* createdAt and an updatedAt not before e's updatedAt.
C2_SaveThenFind ==
    (Generic /\ Called("findById") /\ Present(lastSaved[Get(call.id)])) =>
        LET e == Get(lastSaved[Get(call.id)]).entity
        IN  /\ result.ok
            /\ Present(result.value)
            /\ Get(result.value).id = e.id
            /\ Get(result.value).createdAt = e.createdAt
            /\ Get(result.value).updatedAt >= e.updatedAt

\* a fetched entity that was saved with an older updatedAt and an older
\* createdAt than the time of the save
C2_Witness ==
    /\ Generic /\ Called("findById") /\ Present(lastSaved[Get(call.id)])
    /\ result.ok
    /\ Get(result.value).updatedAt > Get(lastSaved[Get(call.id)]).entity.updatedAt
    /\ Get(result.value).createdAt < Get(result.value).updatedAt

(* ------------------------------- C3 ------------------------------------ *)
\* C3: in each in-memory repository (InMemoryRepository,
\* InMemoryUserRepository, InMemoryProductRepository) save(entity) succeeds,
\* stores under entity.id the entity with updatedAt set to the time of the
\* save, in place of whatever was stored under that id, and returns that
\* stored value.
C3_SaveTouches ==
    Called("save") =>
        LET e == Get(call.entity)
            t == Get(lastSaved[e.id]).at
        IN  /\ Succeeded(result)
            /\ Carried(result) = Some(Touched(e, t))
            /\ MapGet(TheMap, e.id) = Some(Touched(e, t))
            /\ Occurrences(TheMap, e.id) = 1

(* ------------------------------- C4 ------------------------------------ *)
\* C4: findById(id) returns a not-found failure Result exactly when nothing is
\* stored under id, and otherwise a success Result carrying the entity most
\* recently saved under id (as that save stored it).
C4_FindById ==
    (Generic /\ Called("findById")) =>
        LET id == Get(call.id)
        IN  /\ ~result.ok <=> ~MapHas(store, id)
            /\ ~MapHas(store, id) <=> ~Present(lastSaved[id])
            /\ ~result.ok => LookupMissed(result, id)
            /\ result.ok =>
                 /\ ~Present(result.error)
                 /\ result.value = Some(Touched(Get(lastSaved[id]).entity,
                                                Get(lastSaved[id]).at))

\* a lookup that finds the second entry of the Map, saved over an older version
C4_Witness ==
    /\ Generic /\ Called("findById") /\ result.ok
    /\ Len(store) = 2
    /\ store[2].id = Get(call.id)
    /\ Get(lastSaved[Get(call.id)]).entity.updatedAt < Get(result.value).updatedAt

(* ------------------------------- C5 ------------------------------------ *)
\* C5: delete(id) of a stored id returns success and removes the entity; from
\* then on the id stays absent until a save of that id, and every findById of
\* an absent id reports not found.
C5_DeleteThenNotFound ==
    [][\A id \in IdSpace :
         /\ (call'.op = "delete" /\ call'.id = Some(id) /\ call'.had) =>
                (Succeeded(result') /\ ~MapHas(TheMap', id))
         /\ (~MapHas(TheMap, id) /\ MapHas(TheMap', id)) =>
                (call'.op = "save" /\ Get(call'.entity).id = id)
         /\ (call'.op = "findById" /\ call'.id = Some(id) /\ ~MapHas(TheMap', id)) =>
                LookupMissed(result', id)
      ]_vars

\* a successful delete of one of two stored entities
C5_Witness ==
    /\ Called("delete") /\ call.had
    /\ Succeeded(result)
    /\ ~MapHas(TheMap, Get(call.id))
    /\ Len(TheMap) = 1

(* ------------------------------- C6 ------------------------------------ *)
\* C6: delete(id) of an id that is not stored returns a not-found failure and
\* leaves the Map as it was.
C6_DeleteMissing ==
    [][\A id \in IdSpace :
         (call'.op = "delete" /\ call'.id = Some(id) /\ ~call'.had) =>
             (DeleteMissed(result', id) /\ TheMap' = TheMap)
      ]_vars

\* a delete of an absent id on a Map that holds two entities
C6_Witness ==
    /\ Called("delete") /\ ~call.had
    /\ DeleteMissed(result, Get(call.id))
    /\ Len(TheMap) = 2

(* ------------------------------- C7 ------------------------------------ *)
\* C7: findAll() returns a success Result whose value holds exactly the stored
\* entities, each once: every id saved and not deleted since appears in its
\* most recently saved version, and no other id appears.
C7_FindAll ==
    (Generic /\ Called("findAll")) =>
        /\ result.ok
        /\ Present(result.value)
        /\ ~Present(result.error)
        /\ \A id \in IdSpace :
             IF Present(lastSaved[id])
             THEN /\ Occurrences(Get(result.value), id) = 1
                  /\ \E i \in 1..Len(Get(result.value)) :
                       Get(result.value)[i] =
                         Touched(Get(lastSaved[id]).entity, Get(lastSaved[id]).at)
             ELSE Occurrences(Get(result.value), id) = 0
        /\ \A i \in 1..Len(Get(result.value)) : Get(result.value)[i].id \in IdSpace

\* a listing of two entities, one of them saved twice
C7_Witness ==
    /\ Generic /\ Called("findAll") /\ result.ok
    /\ Len(Get(result.value)) = 2
    /\ \E i \in 1..2 : Get(result.value)[i].createdAt < Get(result.value)[i].updatedAt

(* ------------------------------- C8 ------------------------------------ *)
\* the positions of list that page (1-based) of size pageSize covers
WindowOf(list, page, pageSize) ==
    LET lo == (page - 1) * pageSize
        hi == Min(page * pageSize, Len(list))
    IN  [i \in 1..Max(hi - lo, 0) |-> list[lo + i]]

\* the least k with k * pageSize >= total
PagesFor(total, pageSize) ==
    CHOOSE k \in 0..total : k * pageSize >= total /\ \A j \in 0..(k - 1) : j * pageSize < total

\* C8: for page >= 1 and pageSize >= 1 findPaginated returns a success Result
\* whose total is the number of stored entities and whose items are the page
\* window over all stored entities; past the last page it still succeeds, with
\* no items.
C8_FindPaginated ==
    (Generic /\ Called("findPaginated") /\ Get(call.params).page >= 1
             /\ Get(call.params).pageSize >= 1) =>
        LET pp == Get(call.params)
        IN  /\ result.ok
            /\ Present(result.value)
            /\ ~Present(result.error)
            /\ Get(result.value).total = Len(store)
            /\ Get(result.value).items = WindowOf(store, pp.page, pp.pageSize)
            /\ pp.page > PagesFor(Len(store), pp.pageSize) =>
                 Get(result.value).items = <<>>

\* the second page of size 1 over two stored entities
C8_Witness ==
    /\ Generic /\ Called("findPaginated") /\ result.ok
    /\ Get(call.params).page = 2 /\ Get(call.params).pageSize = 1
    /\ Len(store) = 2
    /\ Get(result.value).items = <<store[2]>>

(* ------------------------------- C9 ------------------------------------ *)
\* C9: for page >= 1 and pageSize >= 1 paginate returns total = the length of
\* the list, totalPages = ceil(total / pageSize) (0 for the empty list), page
\* and pageSize as given, at most pageSize items, namely the elements at
\* 0-based positions (page-1)*pageSize .. page*pageSize - 1 in input order;
\* 25 items, page 3, pageSize 10 give elements 21..25, total 25, totalPages 3.
C9_Paginate ==
    (Present(response) /\ params.page >= 1 /\ params.pageSize >= 1) =>
        LET r == Get(response)
        IN  /\ r.total = Len(items)
            /\ r.totalPages = PagesFor(Len(items), params.pageSize)
            /\ (Len(items) = 0 => r.totalPages = 0)
            /\ r.page = params.page
            /\ r.pageSize = params.pageSize
            /\ Len(r.items) <= params.pageSize
            /\ r.items = WindowOf(items, params.page, params.pageSize)
            /\ (items = Iota(25) /\ params.page = 3 /\ params.pageSize = 10) =>
                 (r.items = <<21, 22, 23, 24, 25>> /\ r.total = 25 /\ r.totalPages = 3)

\* the scenario: 25 items, page 3, pageSize 10
C9_Witness ==
    /\ Present(response)
    /\ items = Iota(25) /\ params.page = 3 /\ params.pageSize = 10
    /\ Get(response).items = <<21, 22, 23, 24, 25>>

(* ------------------------------- C10 ----------------------------------- *)
\* C10: the items of pages 1..totalPages, concatenated in page order, are the
\* input list; and every page past totalPages has no items.
C10_PagesPartition ==
    /\ walk > PagesFor(Len(items), params.pageSize) => collected = items
    /\ (Present(response) /\ params.page > Get(response).totalPages) =>
          Get(response).items = <<>>
    /\ (Present(response) /\ params.page > PagesFor(Len(items), params.pageSize)) =>
          Get(response).items = <<>>

\* a walk over three pages, the last one partly filled
C10_Witness ==
    /\ walk = 4 /\ Len(items) = 25 /\ params.pageSize = 10
    /\ collected = items

(* ------------------------------- C11 ----------------------------------- *)
\* C11: paginate does not sort: the response for given items, page and
\* pageSize is the same whatever sortBy and sortOrder are, and its items are a
\* run of consecutive elements of the input, in input order.
C11_NoSorting ==
    Present(response) =>
        /\ \A sb \in SortBys, so \in SortOrders :
             Get(response) = paginate(items, [params EXCEPT !.sortBy = sb, !.sortOrder = so])
        /\ \E off \in 0..Len(items) :
             \A i \in 1..Len(Get(response).items) :
                 /\ off + i <= Len(items)
                 /\ Get(response).items[i] = items[off + i]

\* a descending sort asked of a page of 25 ascending elements
C11_Witness ==
    /\ Present(response)
    /\ params.sortOrder = Some("desc") /\ params.sortBy = Some("createdAt")
    /\ items = Iota(25) /\ params.page = 1 /\ params.pageSize = 10
    /\ Get(response).items[1] = 1

(* ------------------------------- C14 ----------------------------------- *)
\* C14: when an entity as built by createEntityFields (createdAt = updatedAt)
\* is saved under an id not yet stored, the entity returned by save, and the
\* one stored, has createdAt = updatedAt.
C14_FirstSaveKeepsStamps ==
    (Generic /\ Called("save") /\ ~call.had
             /\ Get(call.entity).createdAt = Get(call.entity).updatedAt) =>
        /\ result.ok
        /\ Get(result.value).createdAt = Get(result.value).updatedAt
        /\ Get(MapGet(store, Get(call.entity).id)).createdAt =
             Get(MapGet(store, Get(call.entity).id)).updatedAt

(* ------------------------------- C18 ----------------------------------- *)
\* C18: findAll, findPaginated and save of InMemoryRepository never return a
\* failure Result; findById and delete return a failure only when nothing is
\* stored under the id, and then the entity-not-found error.
C18_OnlyNotFoundFails ==
    (Generic /\ ~Called("none")) =>
        /\ (Called("findAll") \/ Called("findPaginated") \/ Called("save")) => result.ok
        /\ ((Called("findById") \/ Called("delete")) /\ ~result.ok) =>
              /\ ~call.had
              /\ result.error = Some(EntityNotFound(Get(call.id)))

\* a page past the last one, asked of a repository that holds an entity
C18_Witness ==
    /\ Generic /\ Called("findPaginated") /\ result.ok
    /\ Len(store) = 1
    /\ Get(call.params).page = 3
    /\ Get(result.value).items = <<>>


(* ------------------- claims about the shared package ------------------- *)
Applied(fn) == fcall.fn = fn /\ Present(fout)

\* C16: unwrapResult(result) returns result.value when result.ok is true and
\* the value is present; when result.ok is false, or result.ok is true but
\* the value is undefined, it throws an error and returns no value.
C16_UnwrapResult ==
    Applied("unwrapResult") =>
        LET r == fcall.given[1]
            out == Get(fout)
        IN  IF r.ok /\ Present(r.value)
            THEN out.kind = "return" /\ out.value = r.value /\ out.error = Undefined
            ELSE out.kind = "throw" /\ out.value = Undefined /\ Present(out.error)

C16_Witness ==
    /\ Applied("unwrapResult")
    /\ fcall.given[1].ok
    /\ ~Present(fcall.given[1].value)
    /\ Get(fout).kind = "throw"
    /\ Get(fout).error = Some(ErrorMessage("Result value is undefined"))

\* the rules of a name, in the documented order
FailsRequired(str) == \A i \in 1..Len(str) : IsSpace(str[i])

FirstFailingNameRule(str) ==
    IF FailsRequired(str) THEN "REQUIRED"
    ELSE IF Len(str) < MinNameLength THEN "MIN_LENGTH"
    ELSE IF Len(str) > MaxNameLength THEN "MAX_LENGTH"
    ELSE "NONE"

FirstFailingEmailRule(str) ==
    IF FailsRequired(str) THEN "REQUIRED"
    ELSE IF ~EMAIL_REGEX_test(str) THEN "INVALID_FORMAT"
    ELSE "NONE"

ErrorsOf(res) == IF Present(res.errors) THEN Get(res.errors) ELSE <<>>

FieldsOf(res) == [i \in 1..Len(ErrorsOf(res)) |-> ErrorsOf(res)[i].field]

CodesOf(res, field) ==
    LET hits == SelectSeq(ErrorsOf(res), LAMBDA e : e.field = field)
    IN  [i \in 1..Len(hits) |-> hits[i].code]

\* the one error of the first failing rule, or success when no rule fails
Reports(res, field, rule) ==
    IF rule = "NONE"
    THEN res.ok /\ ErrorsOf(res) = <<>>
    ELSE ~res.ok /\ FieldsOf(res) = <<field>> /\ CodesOf(res, field) = <<rule>>

\* fields is order with some fields left out: fixed order, none repeated
InOrder(fields, order) ==
    fields = SelectSeq(order, LAMBDA f : \E i \in 1..Len(fields) : fields[i] = f)

RuleCodes(rule) == IF rule = "NONE" THEN <<>> ELSE <<rule>>

\* C19: validation short-circuits per field in the order required, min-length,
\* max-length: validateName and validateEmail return at most one error, that
\* of the first failing rule, and validateUserDto / validateItemDto report at
\* most one error per field with the fields in the order email, name, role
\* (title, description, ownerId, status).
C19_ShortCircuit ==
    /\ Applied("validateName") =>
          Reports(Get(fout), fcall.given[2], FirstFailingNameRule(fcall.given[1]))
    /\ Applied("validateEmail") =>
          Reports(Get(fout), "email", FirstFailingEmailRule(fcall.given[1]))
    /\ Applied("validateUserDto") =>
          /\ InOrder(FieldsOf(Get(fout)), <<"email", "name", "role">>)
          /\ Get(fout).ok = (ErrorsOf(Get(fout)) = <<>>)
          /\ CodesOf(Get(fout), "email")
                = RuleCodes(FirstFailingEmailRule(OrEmpty(fcall.given[1].email)))
          /\ CodesOf(Get(fout), "name")
                = RuleCodes(FirstFailingNameRule(OrEmpty(fcall.given[1].name)))
    /\ Applied("validateItemDto") =>
          /\ InOrder(FieldsOf(Get(fout)),
                     <<"title", "description", "ownerId", "status">>)
          /\ Get(fout).ok = (ErrorsOf(Get(fout)) = <<>>)
          /\ CodesOf(Get(fout), "title")
                = RuleCodes(FirstFailingNameRule(OrEmpty(fcall.given[1].title)))

C19_Witness ==
    /\ Applied("validateUserDto")
    /\ fcall.given[1].email = Some(<<"@">>)
    /\ fcall.given[1].name = Some(<<>>)
    /\ fcall.given[1].role = Undefined
    /\ FieldsOf(Get(fout)) = <<"email", "name", "role">>
    /\ CodesOf(Get(fout), "name") = <<"REQUIRED">>

\* C20: combineValidations is successful only if every input was successful:
\* any input with ok == false, with or without an errors list, makes the
\* combined result fail, and inputs that are all ok give an ok result.
C20_CombineOk ==
    Applied("combineValidations") =>
        (Get(fout).ok <=> \A i \in 1..Len(fcall.given[1]) : fcall.given[1][i].ok)


RECURSIVE Concat(_)
Concat(lists) ==
    IF lists = <<>> THEN <<>> ELSE Head(lists) \o Concat(Tail(lists))

\* the errors lists of the failing inputs, in input order
FailingErrors(results) ==
    LET failing == SelectSeq(results, LAMBDA r : ~r.ok)
    IN  [i \in 1..Len(failing) |-> ErrorsOf(failing[i])]

\* C21: when at least one input fails, the errors of
\* combineValidations(r1..rn) (none when the list is absent) are exactly the
\* concatenation of the errors lists of the failing inputs, in input order
\* and in the order inside each list: no error is dropped, duplicated or
\* taken from a successful input.
C21_ErrorsConcatenated ==
    (Applied("combineValidations")
       /\ \E i \in 1..Len(fcall.given[1]) : ~fcall.given[1][i].ok) =>
        ErrorsOf(Get(fout)) = Concat(FailingErrors(fcall.given[1]))

\* two failing inputs around a successful one that carries an errors list
C21_Witness ==
    /\ Applied("combineValidations")
    /\ Len(fcall.given[1]) = 3
    /\ ~fcall.given[1][1].ok /\ fcall.given[1][2].ok /\ ~fcall.given[1][3].ok
    /\ FieldsOf(fcall.given[1][1]) = <<"email", "name">>
    /\ FieldsOf(fcall.given[1][2]) = <<"email">>
    /\ FieldsOf(fcall.given[1][3]) = <<"name">>
    /\ FieldsOf(Get(fout)) = <<"email", "name", "name">>

\* C22: every ValidationResult returned by validateEmail, validateName,
\* validateUserDto, validateItemDto and combineValidations has ok true
\* exactly when errors is absent, and ok false exactly when errors is present
\* as a non-empty list.
C22_ValidationResultInvariant ==
    (\E fn \in {"validateEmail", "validateName", "validateUserDto",
                 "validateItemDto", "combineValidations"} : Applied(fn)) =>
        /\ Get(fout).ok <=> ~Present(Get(fout).errors)
        /\ ~Get(fout).ok <=>
              (Present(Get(fout).errors) /\ Len(Get(Get(fout).errors)) > 0)

\* an item with every field failing
C22_Witness ==
    /\ Applied("validateItemDto")
    /\ ~Get(fout).ok
    /\ FieldsOf(Get(fout)) = <<"title", "description", "ownerId", "status">>


(* ------------------- claims about the services ------------------------- *)
Backend_svc == svc \in {"backend.UserService", "backend.ItemService"}

\* the last operation run was op
Did(op) == scall.op = op

\* what the last operation returned
Outcome == Get(sout.value)

\* the last operation returned a success Result / OperationResult
OutcomeOk ==
    /\ sout.kind = "return"
    /\ IF Backend_svc THEN Outcome.ok ELSE Outcome.success

\* the entity in a success Result / OperationResult
OutcomeEntity == IF Backend_svc THEN Get(Outcome.value) ELSE Get(Outcome.data)

Creations == {"registerUser", "createItem", "createProduct"}

\* C12: after any sequence of service operations from an empty repository,
\* under a non-decreasing clock, every stored entity has
\* updatedAt >= createdAt, and the updatedAt stored under an id never
\* decreases from one operation to the next.
C12_StampsOrdered ==
    /\ [](\A i \in 1..Len(Repository) :
              Repository[i].updatedAt >= Repository[i].createdAt)
    /\ [][\A i \in 1..Len(Repository), j \in 1..Len(Repository') :
              Repository[i].id = Repository'[j].id
                  => Repository'[j].updatedAt >= Repository[i].updatedAt]_vars

C12_Witness ==
    /\ svc = "core.UserService"
    /\ Did("deactivateUser")
    /\ OutcomeOk
    /\ \E i \in 1..Len(users) :
          /\ users[i].id = scall.args[1]
          /\ ~users[i].isActive
          /\ users[i].updatedAt > users[i].createdAt

\* the touch of the service's package
Touch(entity, t) == IF Backend_svc THEN touchEntity(entity, t) ELSE touchTimestamp(entity, t)

Created == now' = now /\ scall'.op \in Creations /\ OutcomeOk'

ExpectedFailures ==
    {"Entity with id not found", "Validation failed", "Email already in use",
     "Invalid credentials"}

AbsentId == <<MaxTime + 1, 0>>

\* C17: no backend service operation throws or rejects on an expected
\* failure: not-found, validation failure, duplicate email and bad
\* credentials come back as a failure Result, and every unwrapResult inside
\* the services is given an ok Result with a value, so it never throws.
C17_FailuresAreResults ==
    (Backend_svc /\ scall.op # "none") =>
        /\ sout.kind = "return"
        /\ ~Outcome.ok =>
              /\ Present(Outcome.error)
              /\ Get(Outcome.error).msg \in ExpectedFailures
        /\ (scall.op \in {"getUserById", "updateUser", "deleteUser", "getItemById",
                           "updateItemStatus", "deleteItem"}
              /\ scall.args[1] = AbsentId) =>
              /\ ~Outcome.ok
              /\ Outcome.error = Some(EntityNotFound(AbsentId))
        /\ (scall.op = "registerUser"
              /\ ~validateUserDto([email |-> Some(scall.args[1]),
                                   name |-> Some(scall.args[2]),
                                   role |-> Some(IF Present(scall.args[4])
                                                THEN Get(scall.args[4])
                                                ELSE "user")]).ok) =>
              /\ ~Outcome.ok
              /\ Get(Outcome.error).msg = "Validation failed"
        /\ (scall.op = "createItem" /\ scall.args[1] = <<>>) =>
              /\ ~Outcome.ok
              /\ Get(Outcome.error).msg = "Validation failed"
        /\ (scall.op = "authenticateUser" /\ scall.args[2] = "q") =>
              /\ ~Outcome.ok
              /\ Get(Outcome.error).msg = "Invalid credentials"

C17_Witness ==
    /\ svc = "backend.UserService"
    /\ Did("registerUser")
    /\ sout.kind = "return"
    /\ ~Outcome.ok
    /\ Get(Outcome.error).msg = "Email already in use"
    /\ Len(store) = 1

(* ------------------- claims about events ------------------------------- *)
\* the operations that return a Result / OperationResult
ResultOps ==
    {"registerUser", "authenticateUser", "updateUser", "deleteUser", "createItem",
     "updateItemStatus", "deleteItem", "updateUserProfile", "changeUserRole",
     "deactivateUser", "createProduct", "updateProductStock", "updateProductPrice",
     "addProductTags", "deactivateProduct", "deleteProduct"}
    \cup (IF Backend_svc THEN {"getUserById", "listUsers", "getItemById", "listItems",
                               "getItemsByOwner"}
          ELSE {})

\* the last operation returned a failure Result / OperationResult
Failed ==
    /\ scall.op \in ResultOps
    /\ sout.kind = "return"
    /\ ~(IF Backend_svc THEN Outcome.ok ELSE Outcome.success)

\* C23: a service operation that returns a failure Result (validation
\* failure, email already in use, not found, bad credentials, non-admin
\* actor) leaves the store as it was before the call and delivers no event
\* to any subscriber.
C23_FailureChangesNothing ==
    [][Failed' => /\ Repository' = Repository
                  /\ published' = <<>>
                  /\ delivered' = <<>>]_vars

\* a second registration with a stored email, on a service with two handlers
C23_Witness ==
    /\ svc = "backend.UserService"
    /\ Did("registerUser")
    /\ Failed
    /\ Get(Outcome.error).msg = "Email already in use"
    /\ Len(store) = 1
    /\ Len(eventEmitters) = 2

NoneThrows == \A i \in 1..Len(eventEmitters) : eventEmitters[i] # "thrower"

\* the entity carried by an event
Carries(event) == IF Backend_svc THEN event.payload ELSE event.entity

\* C24: an event published on a service whose N subscribed handlers do not
\* throw is passed to each handler exactly once, in subscription order,
\* within the operation that publishes it and before that operation
\* returns; the operation then returns its success result. With no
\* subscriber nothing is invoked and the operation returns the same way.
C24_EachOnceInOrder ==
    (published # <<>> /\ NoneThrows) =>
        /\ Len(published) = 1
        /\ delivered = [i \in 1..Len(eventEmitters) |->
                           [handler |-> eventEmitters[i], event |-> published[1]]]
        /\ sout.kind = "return"
        /\ IF scall.op \in {"getUserById", "getProductById"}
           THEN Outcome = Some(Carries(published[1]))
           ELSE /\ OutcomeOk
                /\ published[1].type \in {"deleted", "delete"}
                   \/ OutcomeEntity = Carries(published[1])

C24_Witness ==
    /\ svc = "backend.ItemService"
    /\ Did("updateItemStatus")
    /\ eventEmitters = <<"h2", "h1">>
    /\ Len(delivered) = 2
    /\ delivered[1].handler = "h2" /\ delivered[2].handler = "h1"
    /\ delivered[1].event.type = "updated"
    /\ delivered[1].event.payload.status = "published"

\* C25: when a subscriber throws while an event is being published, every
\* subscriber registered after it still receives the event and the
\* publishing operation still returns its success Result.
C25_SubscribersIsolated ==
    published # <<>> =>
        /\ Len(delivered) = Len(eventEmitters)
        /\ \A i \in 1..Len(delivered) : delivered[i].handler = eventEmitters[i]
        /\ sout.kind = "return"

\* C26: subscribing a handler returns an unsubscribe function.
C26_OnEventReturnsUnsubscribe ==
    Did("onEvent") => (sout.kind = "return" /\ Present(sout.value))

MutatingOps ==
    {"registerUser", "createItem", "createProduct", "updateUser", "updateItemStatus",
     "updateUserProfile", "changeUserRole", "deactivateUser", "updateProductStock",
     "updateProductPrice", "addProductTags", "deactivateProduct", "deleteUser",
     "deleteItem", "deleteProduct"}

EventTypesOf(op) ==
    IF op \in Creations THEN {"created", "create"}
    ELSE IF op \in {"deleteUser", "deleteItem", "deleteProduct"} THEN {"deleted", "delete"}
    ELSE {"updated", "update"}

\* C29: every service operation that successfully creates, updates or
\* deletes a stored entity (price, tag and role changes included) publishes
\* exactly one event of the matching type, which each subscribed handler
\* receives once.
C29_MutationsNotify ==
    (scall.op \in MutatingOps /\ OutcomeOk) =>
        /\ Len(published) = 1
        /\ published[1].type \in EventTypesOf(scall.op)
        /\ Len(delivered) = Len(eventEmitters)

(* ------------------------------- C28 ----------------------------------- *)
Reads ==
    {"findById", "findAll", "findPaginated", "findByEmail", "findByRole",
     "findVerified", "findByOwner", "findByStatus", "findMostViewed"}

\* the entries stored under the ids other than id are the same after the step
OthersKept(id) ==
    \A other \in IdSpace \ {id} : MapGet(store', other) = MapGet(store, other)

\* C28: only save and delete change the store, and each changes only the
\* entry of its own id: findById, findAll, findPaginated and the derived
\* queries leave the store unchanged and return the same result when
\* repeated on the unchanged store; save(e) leaves every entry with another
\* id unchanged, delete(id) leaves every other entry unchanged, and every
\* id is stored at most once, under the entity that carries it.
C28_Frame ==
    /\ [](\A i \in 1..Len(store) : MapGet(store, store[i].id) = Some(store[i]))
    /\ [][/\ call'.op \in Reads => store' = store
          /\ (call'.op \in Reads /\ call'.op = call.op /\ call' = call) =>
                result' = result
          /\ call'.op = "save" => OthersKept(Get(call'.entity).id)
          /\ call'.op = "delete" => OthersKept(Get(call'.id))
          /\ store' # store => call'.op \in {"save", "delete"}]_vars

\* the most viewed item is stored last and returned first
C28_Witness ==
    /\ impl = "ItemRepository"
    /\ Called("findMostViewed")
    /\ call.id = Some(1)
    /\ Len(store) = 2
    /\ store[1].views < store[2].views
    /\ result.value = Some(<<store[2]>>)

(* ------------------- claims about calls in flight ---------------------- *)
\* the repository calls made so far, in the order they were made
CallsMade == [i \in 1..Len(callOrder) |-> tasks[callOrder[i]].arg]

RECURSIVE StoreAfter(_)
\* the Map after the calls have run one after another on an empty repository
StoreAfter(made) ==
    IF made = <<>>
    THEN <<>>
    ELSE InMemoryRepository_body(StoreAfter(SubSeq(made, 1, Len(made) - 1)),
                                 made[Len(made)], 0).store

\* C27: findById, findAll, findPaginated, save and delete calls made on one
\* InMemoryRepository while earlier calls are still awaited behave as if run
\* one after another in the order they were made: the store is the one that
\* sequence leaves, and every call, settled or not, holds the result it has
\* in that sequence, so no read sees part of a save or delete.
C27_SequentialSemantics ==
    svc = "none" =>
        /\ store = StoreAfter(CallsMade)
        /\ \A i \in 1..Len(callOrder) :
              tasks[callOrder[i]].result =
                  Some(InMemoryRepository_body(StoreAfter(SubSeq(CallsMade, 1, i - 1)),
                                               CallsMade[i], 0).result)

\* a findById made while a save of the same id is still awaited
C27_Witness ==
    /\ svc = "none"
    /\ callOrder = <<2, 1>>
    /\ tasks[2].op = "save" /\ tasks[2].pc = "awaitCall"
    /\ tasks[1].op = "findById" /\ tasks[1].pc = "awaitCall"
    /\ Get(tasks[1].result).ok
    /\ Get(tasks[1].result).value = Get(tasks[2].result).value

\* caller k's delete operation has returned a success result
DeleteSucceeded(k) ==
    /\ tasks[k].pc = "done"
    /\ IF Backend_svc THEN Get(tasks[k].result).ok ELSE Get(tasks[k].result).success

\* what is published of a stored entity
PayloadOf(entity) ==
    CASE svc = "backend.UserService" -> toUserDto(entity)
      [] svc = "backend.ItemService" -> toItemDto(entity)
      [] OTHER -> entity

\* C30: over any interleaving of deleteUser / deleteItem / deleteProduct
\* calls, two of them for the same id included, at most one deleted event is
\* published per id; each is published by a call whose repository delete
\* succeeded and each such call publishes one; its payload is the entity as
\* it was stored just before the removal; and when it is published, and the
\* handlers run, the id is no longer in the repository.
C30_DeletedOncePerId ==
    svc \in Services =>
        /\ \A i \in 1..Len(published), j \in 1..Len(published) :
              Carries(published[i]).id = Carries(published[j]).id => i = j
        /\ \A i \in 1..Len(published) :
              /\ published[i].type \in {"deleted", "delete"}
              /\ ~MapHas(Repository, Carries(published[i]).id)
              /\ \E k \in 1..MaxTasks :
                    /\ DeleteSucceeded(k)
                    /\ tasks[k].arg = Some(Carries(published[i]).id)
                    /\ Present(tasks[k].removed)
                    /\ PayloadOf(Get(tasks[k].removed)) = Carries(published[i])
        /\ Len(published) = Cardinality({ k \in 1..MaxTasks : DeleteSucceeded(k) })
        /\ Len(delivered) = Len(published) * Len(eventEmitters)

\* two deletes of one id that both found it: one removed it and published
C30_Witness ==
    /\ svc = "backend.UserService"
    /\ \A k \in 1..2 :
          /\ tasks[k].pc = "done"
          /\ tasks[k].arg = Some(<<0, 0>>)
          /\ Get(tasks[k].found).ok
    /\ DeleteSucceeded(1) /\ ~DeleteSucceeded(2)
    /\ Len(published) = 1
    /\ published[1].payload.id = <<0, 0>>

\* every stored user is a viewer
AllViewers(m) == \A i \in 1..Len(m) : m[i].role = "viewer"

\* the step is the service operation op
Does(op) == scall'.op = op /\ now' = now

\* the actor of the changeUserRole call made by the step is stored and an admin
ActorIsAdmin ==
    /\ Present(MapGet(users, scall'.args[1]))
    /\ isAdmin(Get(MapGet(users, scall'.args[1])))

\* C37: changeUserRole changes the target's role only when the actor id is
\* stored and has role admin, and otherwise returns a failure with the store
\* unchanged; a successful call changes the role of the target alone. No
\* UserService operation turns a repository of viewers into anything else,
\* so from an empty repository and with UserService operations alone every
\* stored user stays a viewer and changeUserRole never succeeds.
C37_RoleChangesAdminOnly ==
    /\ [][(Does("changeUserRole") /\ ~ActorIsAdmin) =>
            /\ users' = users
            /\ sout'.kind = "return"
            /\ ~Get(sout'.value).success]_vars
    /\ [][(Does("changeUserRole") /\ ActorIsAdmin
             /\ Present(MapGet(users, scall'.args[2]))) =>
            /\ Get(sout'.value).success
            /\ Get(MapGet(users', scall'.args[2])).role = scall'.args[3]]_vars
    /\ [][Does("changeUserRole") =>
            \A id \in IdSpace :
                (/\ Present(MapGet(users, id))
                 /\ Get(MapGet(users', id)).role # Get(MapGet(users, id)).role) =>
                    (ActorIsAdmin /\ scall'.args[2] = id)]_vars
    /\ [][(AllViewers(users) /\ ~Does("save")) =>
            /\ AllViewers(users')
            /\ ~(Does("changeUserRole") /\ Get(sout'.value).success)]_vars

\* a viewer asked for a role change and was refused, and an admin's was made
C37_Witness ==
    /\ Did("changeUserRole")
    /\ OutcomeOk
    /\ \E i \in 1..Len(users) : users[i].role = "admin" /\ users[i].email = "ann@x"

C37_WitnessRefused ==
    /\ Did("changeUserRole")
    /\ ~OutcomeOk
    /\ users # <<>>
    /\ AllViewers(users)

\* the fields of a UserDto
UserDtoFields == {"id", "createdAt", "updatedAt", "email", "name", "role"}

\* two settings of the fields kept out of a UserDto that differ in each of them
HiddenFields ==
    {[passwordHash |-> hashPassword("p"), loginCount |-> 0, lastLoginAt |-> Undefined,
      isVerified |-> FALSE],
     [passwordHash |-> hashPassword("q"), loginCount |-> MaxCount, lastLoginAt |-> Some(0),
      isVerified |-> TRUE]}

\* user with the fields kept out of its dto replaced by those of hidden
WithHidden(user, hidden) ==
    [user EXCEPT !.passwordHash = hidden.passwordHash, !.loginCount = hidden.loginCount,
                 !.lastLoginAt = hidden.lastLoginAt, !.isVerified = hidden.isVerified]

\* stores that differ from m in the hidden fields of its users only: each
\* user takes one of the two settings, so that every hidden field of every
\* user differs from m in one of them
SameButHidden(m) ==
    { [i \in 1..Len(m) |-> WithHidden(m[i], hidden[i])] :
        hidden \in [1..Len(m) -> HiddenFields] }

\* the last operation returned a Result that carries a user or a page of users
ReturnedUsers ==
    IF sout.kind = "return" /\ Outcome.ok /\ Present(Outcome.value)
    THEN IF Did("listUsers")
         THEN { Get(Outcome.value).items[i] : i \in 1..Len(Get(Outcome.value).items) }
         ELSE {Get(Outcome.value)}
    ELSE {}

\* what a caller and the subscribers see of an ended operation
Seen(ended) == <<ended.out, ended.delivered>>

\* C38: in the backend UserService every user in a Result returned by
\* registerUser, authenticateUser, getUserById, listUsers and updateUser, and
\* every payload delivered to a subscriber, has the UserDto fields (id,
\* createdAt, updatedAt, email, name, role) and no other; and what
\* getUserById, listUsers and updateUser return and deliver is the same on
\* the stores that differ from the current one only in users' passwordHash,
\* loginCount, lastLoginAt and isVerified.
C38_HashNeverLeaves ==
    /\ [](svc = "backend.UserService" =>
            /\ (scall.op \in {"registerUser", "authenticateUser", "getUserById",
                              "listUsers", "updateUser"} =>
                    \A user \in ReturnedUsers : DOMAIN user = UserDtoFields)
            /\ \A i \in 1..Len(delivered) :
                    DOMAIN delivered[i].event.payload = UserDtoFields)
    /\ [][(svc = "backend.UserService"
               /\ scall'.op \in {"getUserById", "listUsers", "updateUser"}) =>
            \A other \in SameButHidden(store) :
                Seen(CASE scall'.op = "getUserById" -> getUserById(other, scall'.args[1])
                       [] scall'.op = "listUsers" -> listUsers(other, scall'.args[1])
                       [] OTHER -> updateUser(other, scall'.args[1], scall'.args[2]))
                    = <<sout', delivered'>>]_vars

\* a user who has logged in was updated and the update was delivered
C38_Witness ==
    /\ svc = "backend.UserService"
    /\ Did("updateUser")
    /\ OutcomeOk
    /\ delivered # <<>>
    /\ \E i \in 1..Len(store) : store[i].id = Outcome.value[1].id /\ store[i].loginCount > 0

\* the requests that have returned, and what each returned
Completed == { k \in 1..Len(requests) : requests[k].pc = "done" }

ResultOf(k) == Get(requests[k].out).value

\* the message a non-ok response carries, if its body is JSON with a message
ServerMessage(resp) ==
    IF resp.body.kind = "object" THEN resp.body.message ELSE Undefined

\* C32: ApiClient.request never rejects and returns a Result: for an ok
\* response a success with the parsed body (a failure if the body cannot be
\* read or parsed), for a non-ok response a failure with the server message
\* or with 'HTTP <status>'; when the timer fires while fetch is
\* pending the request returns the failure 'Request timeout'; once a response
\* has arrived the timer is cleared and the request is never aborted.
C32_RequestResultContract ==
    /\ [](\A k \in Completed :
            /\ Get(requests[k].out).kind = "return"
            /\ ResultOf(k).ok \in BOOLEAN
            /\ (~Present(requests[k].response)) => ~ResultOf(k).ok
            /\ (Present(requests[k].response) /\ Get(requests[k].response).ok) =>
                   (ResultOf(k).ok => ResultOf(k).value = Some(Get(requests[k].response).body))
            /\ (Present(requests[k].response) /\ ~Get(requests[k].response).ok) =>
                   ResultOf(k) \in
                       { createError(message) :
                           message \in {HttpStatus(Get(requests[k].response).status)} \cup
                               { ServerMessage(Get(requests[k].response))[i] :
                                   i \in 1..Len(ServerMessage(Get(requests[k].response))) } })
    /\ [](\A k \in 1..Len(requests) :
            Present(requests[k].response) =>
                (requests[k].timer = "cleared" /\ ~requests[k].aborted))
    /\ [][\A k \in 1..Len(requests) :
            (requests[k].pc = "awaitFetch" /\ requests'[k].timer = "fired") =>
                /\ requests'[k].pc = "done"
                /\ Get(requests'[k].out) =
                       Returned(createError(ErrorMessage("Request timeout")))]_vars

\* the service calls that have returned, taken by their caller or not
Results ==
    { returned[i] : i \in 1..Len(returned) }
        \cup { [op |-> tasks[k].op, arg |-> tasks[k].arg, result |-> Get(tasks[k].result)] :
                 k \in { j \in 1..MaxTasks : tasks[j].pc = "done" } }

\* the calls of op that have returned and those of them that returned success
ResultsOf(op) == { c \in Results : c.op = op }

SuccessesOf(op) == { c \in ResultsOf(op) : c.result.ok }

\* the calls in flight: made, and not returned yet
InFlight(ops) == { k \in 1..MaxTasks : tasks[k].op \in ops /\ tasks[k].pc \notin {"idle", "done"} }

\* a call of one of ops was made
Made(ops) == InFlight(ops) # {} \/ \E c \in Results : c.op \in ops

\* C33: in the backend UserService, under any interleaving of registerUser,
\* updateUser, authenticateUser and deleteUser calls at their awaits, no two
\* stored users have the same email.
C33_EmailsUnique ==
    svc = "backend.UserService" =>
        \A i, j \in 1..Len(store) : store[i].email = store[j].email => i = j

\* C34: when every getItemById call for a stored item has returned and no
\* other operation was called on it, its views equals the number of those
\* calls that returned success; likewise loginCount and the successful
\* authenticateUser calls; and when the updateUser calls have returned, a
\* stored user carries the name and the role of the successful ones.
C34_NoLostUpdates ==
    /\ (svc = "backend.ItemService"
          /\ InFlight({"getItemById"}) = {} /\ ~Made({"updateItemStatus", "delete"})) =>
            \A i \in 1..Len(store) :
                store[i].views = Cardinality(
                    { j \in 1..Len(returned) :
                        /\ returned[j].op = "getItemById"
                        /\ returned[j].arg[1] = store[i].id
                        /\ returned[j].result.ok })
                  + Cardinality(
                    { k \in 1..MaxTasks :
                        /\ tasks[k].op = "getItemById" /\ tasks[k].pc = "done"
                        /\ tasks[k].arg[1] = store[i].id
                        /\ Get(tasks[k].result).ok })
    /\ (svc = "backend.UserService"
          /\ InFlight({"authenticateUser"}) = {} /\ ~Made({"updateUser", "delete"})
          /\ Len(store) = 1) =>
            store[1].loginCount = Cardinality(
                    { j \in 1..Len(returned) :
                        returned[j].op = "authenticateUser" /\ returned[j].result.ok })
                  + Cardinality(
                    { k \in 1..MaxTasks :
                        /\ tasks[k].op = "authenticateUser" /\ tasks[k].pc = "done"
                        /\ Get(tasks[k].result).ok })
    /\ (svc = "backend.UserService"
          /\ InFlight({"updateUser"}) = {} /\ ~Made({"authenticateUser", "delete"})) =>
            \A c \in SuccessesOf("updateUser") :
                \A i \in 1..Len(store) :
                    store[i].id = c.arg[1] =>
                        /\ Present(c.arg[2].name) => store[i].name = Get(c.arg[2].name)
                        /\ Present(c.arg[2].role) => store[i].role = Get(c.arg[2].role)

\* C35: once deleteUser / deleteItem for an id has returned success, no entity
\* is stored under that id.
C35_DeletedStaysDeleted ==
    \A c \in SuccessesOf("delete") : ~MapHas(store, c.arg[1])

\* the types of the events about id that the first subscriber was passed
TypesSeen(id) ==
    LET seen == SelectSeq(delivered,
                    LAMBDA d : d.handler = eventEmitters[1] /\ d.event.payload.id = id)
    IN  [i \in 1..Len(seen) |-> seen[i].event.type]

\* C36: for every id, what a handler subscribed before the entity was
\* created observes is one 'created' event first, then 'updated' events, then
\* at most one 'deleted' event, and nothing for that id after it.
C36_EventsFollowLifecycle ==
    \A id \in {<<0, r>> : r \in 0..(MaxRand - 1)} :
        LET types == TypesSeen(id)
        IN  eventEmitters # <<>> =>
                \A i \in 1..Len(types) :
                    /\ types[i] = "created" <=> i = 1
                    /\ types[i] = "deleted" => i = Len(types)

\* the handlers that the step passed its event to, in order
Invoked == [i \in 1..Len(delivered') |-> delivered'[i].handler]

\* C31: an event is passed to exactly the handlers that were subscribed when
\* its publication started, in subscription order: a handler subscribed by
\* another handler during the publication is not passed that event, and is
\* passed every event published afterwards.
C31_SubscribedAtPublishTime ==
    [][published' # <<>> => Invoked = eventEmitters]_vars

\* the notification with this id is in the list that getAll returns
Listed(id) == \E i \in 1..Len(notifications) : notifications[i].id = id

ListedFor(id, durations) ==
    \E i \in 1..Len(notifications) :
        notifications[i].id = id /\ notifications[i].duration \in durations

\* C39: a notification added with duration > 0 is eventually absent from
\* getAll(), one added with duration <= 0 stays until remove is called with
\* its id, the ids that add returns are pairwise distinct, and every add and
\* every remove, the one of the timer included, passes the current list to
\* each subscribed listener once.
C39_NotificationsExpire ==
    /\ \A id \in NotificationIds :
           ListedFor(id, {1, DefaultDuration}) ~> ~Listed(id)
    /\ [][/\ \A id \in NotificationIds :
                 ListedFor(id, {-1, 0}) /\ ~Listed(id)'
                     => ncall'.op = "remove" /\ ncall'.args = <<id>>
          /\ ncall'.op = "add"
                 => /\ ncall'.out = Returned(NotificationId(idCounter'))
                    /\ idCounter' > idCounter
                    /\ ~Listed(NotificationId(idCounter'))
          /\ ncall'.op \in {"add", "remove", "timeout"}
                 => notified' = [i \in 1..Len(listeners) |->
                                     [listener |-> listeners[i],
                                      list |-> notifications']]]_vars

====
